---- MODULE Spec2Model ----
(***************************************************************************)
(* A model of the music cog of MichaelBotPy (src/categories/music.py):     *)
(* the per-guild MusicController and its controller_loop, the Music cog's  *)
(* registry of controllers, the commands that mutate a controller's queue, *)
(* flags and player, and the node's event hook.                            *)
(*                                                                         *)
(* The program runs on one asyncio event loop: a task runs without         *)
(* interruption until it awaits something that is not ready.  Each action  *)
(* below is one such uninterrupted stretch of one task.  An await of       *)
(* asyncio.Queue.put on the unbounded queue, of asyncio.Queue.get on a     *)
(* non-empty queue and of asyncio.Event.wait on a set event does not       *)
(* suspend, so it does not end a stretch.                                  *)
(*                                                                         *)
(* One guild (space) is modelled; the wavelink player of the guild is      *)
(* shared by every MusicController built for that guild.                   *)
(*                                                                         *)
(* Spec is the cog with its commands, the loop and the node.  SpecPlay is  *)
(* the cog under play, queue shuffle and skip.  SpecOps applies one        *)
(* operation to a controller whose loop waits for the end of its track.    *)
(* SpecQueue is the cog under play and the queue commands, SpecQueueFair   *)
(* the same with an event loop that is fair to the loop tasks.  SpecStop   *)
(* is one stop command on a controller that plays.  SpecLife is the        *)
(* registry under play, disconnect and cog_unload, SpecLifeFair the same   *)
(* under fair scheduling, SpecForget the same without play's tracks.       *)
(* SpecVolume is the cog under the volume command, SpecRegistry the        *)
(* registry under get_controller, disconnect and cog_unload.  SpecMenu is  *)
(* one command invoked by a message or by a button of the menu, with the   *)
(* cooldowns of discord.py: one bucket per command and guild.  SpecDrain   *)
(* is the cog under the commands that take tracks out of a queue,          *)
(* SpecDrainFair the same with an event loop that is fair to the loop      *)
(* tasks and to the commands.                                              *)
(***************************************************************************)
EXTENDS Integers, Sequences, FiniteSets, Bags, TLC

\* ------------------------------------------------------------- bounds
MaxCtrl == 2     \* MusicController objects ever constructed for the guild
MaxTasks == 2    \* command invocations in flight at once
MaxPuts == 2     \* Track objects ever built and enqueued by play
MaxPending == 1  \* TrackEnd events of player.stop() in flight at once
MaxQLen == 5     \* longest queue drawn for the queue-operation specification

\* ---------------------------------------------------------- constants
None == 0                 \* Python's None (a track, a controller, a message)
DefaultVolume == 50       \* MusicController.__init__: self.volume = 50
MinVolume == 0            \* Music.volume: max(.., 0)
MaxVolume == 200          \* Music.volume: min(new_volume, 200)

CtrlId == 1..MaxCtrl
TaskId == 1..MaxTasks
Tracks == 1..(MaxQLen + 1)
EventTypes == {"TrackEnd", "TrackException", "TrackStart"}
IndexInputs == (0 - 1)..(MaxQLen + 1)

VARIABLES
    registry,     \* Music.controllers[gid]: a controller id, or None
    nctrl,        \* number of MusicController objects constructed so far
    ctrl,         \* the MusicController objects
    player,       \* the guild's wavelink.Player, as the cog reads and drives it
    pendingEnds,  \* TrackEnd events caused by player.stop(), not yet delivered
    nput,         \* Track objects built so far; the k-th built is track k
    task,         \* the command invocations
    press,        \* the menu's button handlers, by the invocation each awaits
    buckets,      \* the guild's cooldown bucket of each command
    fifo,         \* history: per controller, what was put and what the loop got
    lastOp        \* history: the last operation looked at, with the state before it

vars == <<registry, nctrl, ctrl, player, pendingEnds, nput, task, press, buckets,
          fifo, lastOp>>

\* ------------------------------------------------- MusicController.__init__
NewController ==
    [ queue |-> <<>>, next |-> FALSE, volume |-> DefaultVolume,
      is_single_loop |-> FALSE, is_queue_loop |-> FALSE,
      current_track |-> None, channel |-> FALSE, menu_message |-> FALSE,
      pc |-> "init", getter |-> "none" ]

\* A controller id no MusicController has been constructed for yet.
Absent == [NewController EXCEPT !.pc = "absent"]

IdleTask == [cmd |-> "none", pc |-> "idle", c |-> None]

\* The commands that have a button on the menu (lines 125-172), and the
\* commands the guild's rate limit applies to (the cooldown decorators, all of
\* BucketType.guild): the bucket of a command is None while it lets an
\* invocation through, and else holds the member whose invocation exhausted
\* it (the program keeps the exhaustion only, not the member).
ButtonCommands ==
    {"pause", "skip", "queue shuffle", "queue loop", "repeat", "stop", "disconnect"}
Limited == ButtonCommands \cup {"seek"}

\* No button handler awaits the invocation.
NoPress == [button |-> "none", member |-> None, author |-> None, pc |-> "none",
            menu |-> None]

\* The player before the controller loop has set its volume.
NoPlayer == [current |-> None, connected |-> FALSE, paused |-> FALSE, volume |-> 100]

\* The record of one operation: its arguments, its reply, the track it took
\* out, and the controller and the player before and after it.
NoOp == [cmd |-> "none", src |-> 0, dst |-> 0, reply |-> "", track |-> None,
         was |-> Absent, now |-> Absent, pwas |-> NoPlayer, pnow |-> NoPlayer]

\* The history of a controller's queue: the tracks play has put and the tracks
\* the loop has got, in order, while `ok`: until a remove, move, clear, stop or
\* a put of the loop itself.  `shuffled`: a shuffle has acted; `overlap`: a
\* shuffle has acted while another shuffle invocation was in flight.
\* `came`: the tracks play has put; `went`: the tracks the loop has got and the
\* tracks remove and clear have taken out; both while `sound`: until a stop, a
\* disconnect or a put of the loop itself.
NoLog == [put |-> <<>>, got |-> <<>>, ok |-> TRUE, shuffled |-> FALSE, overlap |-> FALSE,
          came |-> {}, went |-> {}, sound |-> TRUE]
Tainted == [NoLog EXCEPT !.ok = FALSE, !.sound = FALSE]

\* ------------------------------------------------------- asyncio.Queue
\* A put that goes to the head of the queue.
QueuePutFront(cr, x) ==
    [cr EXCEPT !.queue = <<x>> \o @,
               !.getter = IF @ = "waiting" THEN "woken" ELSE @]

\* A put that appends and wakes nobody.
QueuePutNoWake(cr, x) == [cr EXCEPT !.queue = Append(@, x)]

\* Queue.put on the unbounded queue: append, and wake the first waiting getter.
QueuePut(cr, x) ==
    [cr EXCEPT !.queue = Append(@, x),
               !.getter = IF @ = "waiting" THEN "woken" ELSE @]

\* ------------------------------------------------------ wavelink.Player
is_playing == player.connected /\ player.current # None

\* Player.play(track): the player's current track is replaced; a None track
\* raises in the player (track.id), which ends the calling task.
PlayerPlay(pl, track) == [pl EXCEPT !.current = track, !.paused = FALSE]

\* ------------------------------------------- MusicController.controller_loop
\* A stretch of the loop yields the controller c and the player p it leaves,
\* the tracks it got from the queue and the tracks it put back.

\* Line 54, `await self.player.play(self.current_track)`.
PlayCurrent(cr, pl) ==
    IF cr.current_track = None
    THEN [c |-> [cr EXCEPT !.pc = "crashed"], p |-> PlayerPlay(pl, None),
          got |-> <<>>, reput |-> <<>>]
    ELSE [c |-> [cr EXCEPT !.pc = "play"], p |-> PlayerPlay(pl, cr.current_track),
          got |-> <<>>, reput |-> <<>>]

\* A get that hands the head to the player and does not keep it.
GetAndPlayStale(cr, pl) ==
    [c |-> [cr EXCEPT !.queue = Tail(@), !.getter = "none", !.pc = "play"],
     p |-> PlayerPlay(pl, Head(cr.queue)), got |-> <<Head(cr.queue)>>, reput |-> <<>>]

\* Lines 52-54: `self.current_track = await self.queue.get()` on a queue that
\* holds a track, then the play.
GetAndPlay(cr, pl) ==
    LET head == Head(cr.queue)
        r == PlayCurrent([cr EXCEPT !.current_track = head, !.queue = Tail(@),
                                    !.getter = "none"], pl)
    IN [r EXCEPT !.got = <<head>>]

\* A pass that gets from the queue whatever is_single_loop says.
LoopTopAlwaysGets(cr, pl) ==
    LET cleared == [cr EXCEPT !.next = FALSE] IN
    IF cleared.queue = <<>>
    THEN [c |-> [cleared EXCEPT !.pc = "get", !.getter = "waiting"], p |-> pl,
          got |-> <<>>, reput |-> <<>>]
    ELSE GetAndPlay(cleared, pl)

\* A pass that does not clear the event.
LoopTopNoClear(cr, pl) ==
    IF cr.is_single_loop
    THEN PlayCurrent(cr, pl)
    ELSE IF cr.queue = <<>>
         THEN [c |-> [cr EXCEPT !.pc = "get", !.getter = "waiting"], p |-> pl,
               got |-> <<>>, reput |-> <<>>]
         ELSE GetAndPlay(cr, pl)

\* Lines 49-54: one pass from the top of `while True` to the next suspension.
LoopTop(cr, pl) ==
    LET cleared == [cr EXCEPT !.next = FALSE] IN
    IF cleared.is_single_loop
    THEN PlayCurrent(cleared, pl)
    ELSE IF cleared.queue = <<>>
         THEN [c |-> [cleared EXCEPT !.pc = "get", !.getter = "waiting"], p |-> pl,
               got |-> <<>>, reput |-> <<>>]
         ELSE GetAndPlay(cleared, pl)

\* A wake that puts nothing back.
AfterWaitNoPut(cr, pl) == LoopTop(cr, pl)

\* Lines 61-62, past `await self.next.wait()`, then the next pass.
AfterWait(cr, pl) ==
    IF cr.is_queue_loop
    THEN [LoopTop(QueuePut(cr, cr.current_track), pl) EXCEPT !.reput = <<cr.current_track>>]
    ELSE LoopTop(cr, pl)

\* A wait that clears the event before it waits for it.
WaitNextClears(cr, pl) ==
    [c |-> [cr EXCEPT !.pc = "wait", !.next = FALSE], p |-> pl, got |-> <<>>,
     reput |-> <<>>]

\* Line 60: Event.wait returns at once when the event is set.
WaitNext(cr, pl) ==
    IF cr.next THEN AfterWait(cr, pl)
    ELSE [c |-> [cr EXCEPT !.pc = "wait"], p |-> pl, got |-> <<>>, reput |-> <<>>]

\* ------------------------------------------------------------ histories
Range(xs) == {xs[i] : i \in DOMAIN xs}

LogPut(f, xs) ==
    LET g == IF f.sound THEN [f EXCEPT !.came = @ \cup Range(xs)] ELSE f
    IN IF g.ok THEN [g EXCEPT !.put = @ \o xs] ELSE g

LogGot(f, xs) ==
    LET g == IF f.sound THEN [f EXCEPT !.went = @ \cup Range(xs)] ELSE f
    IN IF g.ok THEN [g EXCEPT !.got = @ \o xs] ELSE g

\* A command has taken the tracks xs out of the queue, or has moved a track:
\* the order of the puts is no longer the order of the queue.
LogCut(f, xs) ==
    IF f.sound
    THEN [Tainted EXCEPT !.sound = TRUE, !.came = f.came, !.went = f.went \cup Range(xs)]
    ELSE Tainted

\* The stretch r of controller c's loop takes effect.  The history ends with
\* the first track the loop itself puts back (line 62).
LoopStep(c, r) ==
    /\ ctrl' = [ctrl EXCEPT ![c] = r.c]
    /\ player' = r.p
    /\ fifo' = [fifo EXCEPT ![c] = IF r.reput = <<>> THEN LogGot(@, r.got) ELSE Tainted]
    /\ UNCHANGED <<registry, nctrl, pendingEnds, nput, task>>

\* Lines 43-46, then the first pass: the loop task starts.
CtrlStart(c) ==
    /\ ctrl[c].pc = "init"
    /\ LoopStep(c, LoopTop(ctrl[c], [player EXCEPT !.volume = ctrl[c].volume]))

\* Lines 55-60: play has returned.  `await self.channel.send(...)` raises on a
\* channel that is None, which ends the loop task; else the notification is
\* sent, the menu is refreshed if it has a message (which changes nothing
\* here), and the loop waits for the event.
CtrlPlayReturn(c) ==
    /\ ctrl[c].pc = "play"
    /\ LoopStep(c, IF ctrl[c].channel
                   THEN WaitNext(ctrl[c], player)
                   ELSE [c |-> [ctrl[c] EXCEPT !.pc = "crashed"], p |-> player,
                         got |-> <<>>, reput |-> <<>>])

\* Lines 60-62 and the next pass: the loop is resumed from next.wait().
CtrlWake(c) ==
    /\ ctrl[c].pc = "wait"
    /\ ctrl[c].next
    /\ LoopStep(c, AfterWait(ctrl[c], player))

\* Line 52: the loop is resumed inside queue.get(), which takes the head, or
\* waits again when the queue is empty once more.
CtrlGetWake(c) ==
    /\ ctrl[c].pc = "get"
    /\ ctrl[c].getter = "woken"
    /\ LoopStep(c, IF ctrl[c].queue = <<>>
                   THEN [c |-> [ctrl[c] EXCEPT !.getter = "waiting"], p |-> player,
                         got |-> <<>>, reput |-> <<>>]
                   ELSE GetAndPlay(ctrl[c], player))

\* ------------------------------------------------- Music.get_controller
CanResolve == registry # None \/ nctrl < MaxCtrl
get_controller == IF registry # None THEN registry ELSE nctrl + 1
\* A get_controller that builds the new controller from the last one built.
CtrlReused ==
    IF registry # None THEN ctrl
    ELSE [ctrl EXCEPT ![nctrl + 1] =
            IF nctrl > 0 THEN [ctrl[nctrl] EXCEPT !.pc = "init", !.getter = "none"]
            ELSE NewController]

CtrlResolved == IF registry # None THEN ctrl ELSE [ctrl EXCEPT ![nctrl + 1] = NewController]

\* A get_controller that counts a construction whenever it has room for one.
NctrlAlwaysGrows == IF nctrl < MaxCtrl THEN nctrl + 1 ELSE nctrl

NctrlResolved == IF registry # None THEN nctrl ELSE nctrl + 1

\* A hook that looks at wavelink.TrackEnd alone.
OnEventEndOnly(ev) ==
    IF ev = "TrackEnd"
    THEN /\ CanResolve
         /\ registry' = get_controller
         /\ nctrl' = NctrlResolved
         /\ ctrl' = [CtrlResolved EXCEPT ![get_controller].next = TRUE]
         /\ player' = [player EXCEPT !.current = None]
    ELSE UNCHANGED <<registry, nctrl, ctrl, player>>

\* --------------------------------------------------- Music.on_event_hook
\* The player's own hook drops its current track on a track end or exception;
\* then the cog's hook sets the event of the guild's controller.
OnEvent(ev) ==
    IF ev \in {"TrackEnd", "TrackException"}
    THEN /\ CanResolve
         /\ registry' = get_controller
         /\ nctrl' = NctrlResolved
         /\ ctrl' = [CtrlResolved EXCEPT ![get_controller].next = TRUE]
         /\ player' = [player EXCEPT !.current = None]
    ELSE UNCHANGED <<registry, nctrl, ctrl, player>>

\* The node reports no further track end once a queue has outgrown the tracks
\* ever built (a queue that grows with every track end is cut off here).
QueueInBounds == \A c \in CtrlId : Len(ctrl[c].queue) < MaxPuts

\* The node reports that the track it plays has ended, has failed, or has started.
TrackEvent(ev) ==
    /\ player.current # None
    /\ QueueInBounds
    /\ OnEvent(ev)
    /\ UNCHANGED <<pendingEnds, nput, task, fifo>>

\* The node reports the TrackEnd that a player.stop() caused.
StopEvent ==
    /\ pendingEnds > 0
    /\ pendingEnds' = pendingEnds - 1
    /\ OnEvent("TrackEnd")
    /\ UNCHANGED <<nput, task, fifo>>

\* ------------------------------------------------------------- commands
\* A command starts: `controller = self.get_controller(ctx)`, then cr is what
\* the stretch makes of that controller and tk what the invocation goes on as.
\* An invocation with nothing left to do but send its last reply is over.
Resolve(t, cr, tk) ==
    /\ registry' = get_controller
    /\ nctrl' = NctrlResolved
    /\ ctrl' = [CtrlResolved EXCEPT ![get_controller] = cr]
    /\ task' = [task EXCEPT ![t] = tk]

\* The invocations are interchangeable: a command takes the first free one.
Starts(t) ==
    /\ task[t].pc = "idle"
    /\ \A u \in 1..(t - 1) : task[u].pc # "idle"
    /\ CanResolve

\* The controller the command has resolved, as it is when the command starts.
Resolved == CtrlResolved[get_controller]

Invocation(cmd, pc) == [IdleTask EXCEPT !.cmd = cmd, !.pc = pc, !.c = get_controller]

Taint(c) == fifo' = [fifo EXCEPT ![c] = Tainted]

\* `while not controller.queue.empty(): await controller.queue.get()`
DrainAll(cr) == [cr EXCEPT !.queue = <<>>]

\* The tail of play, pause, repeat, queue loop, queue shuffle, resume, volume
\* and skip (lines 379-383): `await ctx.reply(...)`, then menu.start when
\* `controller.menu.message is None`, then update_menu.  Only the start changes
\* the controller, and a message once set stays: the invocation is over when
\* it reaches its tail with the message set, and else goes on to the tail.
\* The repeat that queue loop invokes (line 629) runs this tail before queue
\* loop's own, which then finds the message set.
CommandTail(cmd, cr) ==
    IF cr.menu_message THEN IdleTask
    ELSE [IdleTask EXCEPT !.cmd = cmd, !.pc = "reply", !.c = get_controller]

\* The reply is sent and `controller.menu.message is None` is read.
TaskReplyReturn(t) ==
    /\ task[t].pc = "reply"
    /\ task' = [task EXCEPT ![t] =
                  IF ~ctrl[task[t].c].menu_message
                  THEN [@ EXCEPT !.pc = "menu_start"]
                  ELSE IdleTask]
    /\ UNCHANGED <<registry, nctrl, ctrl, player, pendingEnds, nput, fifo>>

\* menu.start(ctx) has sent the initial message: menu.message is set;
\* update_menu follows and the command is over.
TaskMenuStarted(t) ==
    /\ task[t].pc = "menu_start"
    /\ ctrl' = [ctrl EXCEPT ![task[t].c].menu_message = TRUE]
    /\ task' = [task EXCEPT ![t] = IdleTask]
    /\ UNCHANGED <<registry, nctrl, player, pendingEnds, nput, fifo>>

\* ------------------------------------------------------------ Music.play
\* Lines 356-364.  A play on a player that is not connected invokes connect
\* (lines 246-256), which needs the author in a voice channel.
Play(t, inVoice) ==
    /\ Starts(t)
    /\ IF ~player.connected
       THEN IF inVoice
            THEN Resolve(t, [Resolved EXCEPT !.channel = TRUE],
                         Invocation("play", "connect_reply"))
            ELSE Resolve(t, Resolved, IdleTask)
       ELSE IF inVoice
            THEN Resolve(t, Resolved, Invocation("play", "get_tracks"))
            ELSE Resolve(t, Resolved, IdleTask)
    /\ UNCHANGED <<player, pendingEnds, nput, fifo>>

\* Line 256: `await controller.player.connect(voice_channel.id)`, then the
\* search of line 364.
PlayConnect(t) ==
    /\ task[t].pc = "connect_reply"
    /\ player' = [player EXCEPT !.connected = TRUE]
    /\ task' = [task EXCEPT ![t].pc = "get_tracks"]
    /\ UNCHANGED <<registry, nctrl, ctrl, pendingEnds, nput, fifo>>

RECURSIVE PutTracks(_, _, _)
\* Lines 371-373 and 376-377: build a Track and put it, for each track found.
PutTracks(cr, first, n) ==
    IF n = 0 THEN cr ELSE PutTracks(QueuePut(cr, first), first + 1, n - 1)

\* Lines 366-378: the search has returned nothing, one track, or a playlist.
PlayTracks(t, n) ==
    /\ task[t].pc = "get_tracks"
    /\ nput + n <= MaxPuts
    /\ IF n = 0
       THEN /\ task' = [task EXCEPT ![t] = IdleTask]
            /\ UNCHANGED <<ctrl, nput, fifo>>
       ELSE /\ ctrl' = [ctrl EXCEPT ![task[t].c] = PutTracks(@, nput + 1, n)]
            /\ nput' = nput + n
            /\ fifo' = [fifo EXCEPT ![task[t].c] =
                          LogPut(@, [i \in 1..n |-> nput + i])]
            /\ task' = [task EXCEPT ![t] =
                          IF ctrl[task[t].c].menu_message THEN IdleTask
                          ELSE [@ EXCEPT !.pc = "reply"]]
    /\ UNCHANGED <<registry, nctrl, player, pendingEnds>>

\* ---------------------------------------------------------- Music.repeat
\* Lines 489-494.  `not controller.player` is false: the player is an object.
RepeatFlags(cr) == [cr EXCEPT !.is_single_loop = ~@]

Repeat(t) ==
    /\ Starts(t)
    /\ Resolve(t, RepeatFlags(Resolved), CommandTail("repeat", Resolved))
    /\ UNCHANGED <<player, pendingEnds, nput, fifo>>

\* ------------------------------------------------------ Music.queue_loop
\* A queue loop that toggles its flag and nothing else.
QueueLoopToggleOnly(cr) == [cr EXCEPT !.is_queue_loop = ~@]

\* Lines 626-629.  With both flags set it invokes repeat (line 629), which
\* toggles is_single_loop and runs repeat's reply and menu tail before queue
\* loop's own.
QueueLoopFlags(cr) ==
    LET toggled == [cr EXCEPT !.is_queue_loop = ~@] IN
    IF toggled.is_queue_loop /\ toggled.is_single_loop
    THEN RepeatFlags(toggled)
    ELSE toggled

QueueLoop(t) ==
    /\ Starts(t)
    /\ Resolve(t, QueueLoopFlags(Resolved), CommandTail("queue loop", Resolved))
    /\ UNCHANGED <<player, pendingEnds, nput, fifo>>

\* ---------------------------------------------------- Music.queue_remove
RECURSIVE DrainLoopOneMore(_, _, _, _, _, _)
\* A drain loop that gets one track more than the queue held.
DrainLoopOneMore(cr, fake, removed, i, max_size, index) ==
    IF i >= max_size + 1
    THEN [c |-> cr, fake |-> fake, removed |-> removed, blocked |-> FALSE]
    ELSE IF cr.queue = <<>>
         THEN [c |-> cr, fake |-> fake, removed |-> removed, blocked |-> TRUE]
         ELSE IF i = index
              THEN DrainLoopOneMore([cr EXCEPT !.queue = Tail(@)], fake, Head(cr.queue),
                                    i + 1, max_size, index)
              ELSE DrainLoopOneMore([cr EXCEPT !.queue = Tail(@)],
                                    Append(fake, Head(cr.queue)), removed,
                                    i + 1, max_size, index)

RECURSIVE DrainLoop(_, _, _, _, _, _)
\* Lines 702-706 (and 665-669): `for i in range(0, max_size)`, the track at
\* index is kept aside and every other one goes to fake_queue.
\* `await controller.queue.get()` goes on without a suspension while the queue
\* holds a track; on an empty queue the command is suspended in it (blocked),
\* with the queue as the loop has left it so far.
DrainLoop(cr, fake, removed, i, max_size, index) ==
    IF i >= max_size
    THEN [c |-> cr, fake |-> fake, removed |-> removed, blocked |-> FALSE]
    ELSE IF cr.queue = <<>>
         THEN [c |-> cr, fake |-> fake, removed |-> removed, blocked |-> TRUE]
         ELSE IF i = index
              THEN DrainLoop([cr EXCEPT !.queue = Tail(@)], fake, Head(cr.queue),
                             i + 1, max_size, index)
              ELSE DrainLoop([cr EXCEPT !.queue = Tail(@)], Append(fake, Head(cr.queue)),
                             removed, i + 1, max_size, index)

RECURSIVE RebuildLoopShort(_, _, _, _)
\* A rebuild that puts back one track less than it was left.
RebuildLoopShort(cr, fake, i, max_size) ==
    IF i >= max_size - 1
    THEN cr
    ELSE RebuildLoopShort(QueuePut(cr, Head(fake)), Tail(fake), i + 1, max_size)

RECURSIVE RebuildLoop(_, _, _, _)
\* Lines 708-709 (and 671-672): `for i in range(0, max_size)`, put back.
RebuildLoop(cr, fake, i, max_size) ==
    IF i >= max_size
    THEN cr
    ELSE RebuildLoop(QueuePut(cr, Head(fake)), Tail(fake), i + 1, max_size)

\* A check that lets the index one past the end through.
OutOfRangeLoose(index, max_size) == index < 0 \/ index > max_size

\* Line 696 (and 660): the check of a zero-based index against the size.
OutOfRange(index, max_size) == index < 0 \/ index > max_size - 1

\* queue remove taking its index for a zero-based one.
RemoveAtZeroBased(cr, index1) ==
    LET max_size == Len(cr.queue)
    IN IF OutOfRange(index1, max_size)
       THEN [c |-> cr, removed |-> None, reply |-> "Index out of range.",
             blocked |-> FALSE]
       ELSE LET d == DrainLoop(cr, <<>>, None, 0, max_size, index1)
            IN [c |-> RebuildLoop(d.c, d.fake, 0, max_size - 1),
                removed |-> d.removed, reply |-> "Track removed", blocked |-> FALSE]

\* Lines 694-711: what queue remove makes of the controller, the track it
\* removed (None when the index is refused) and its reply.
RemoveAt(cr, index1) ==
    LET max_size == Len(cr.queue)
        index == index1 - 1
    IN IF OutOfRange(index, max_size)
       THEN [c |-> cr, removed |-> None, reply |-> "Index out of range.",
             blocked |-> FALSE]
       ELSE LET d == DrainLoop(cr, <<>>, None, 0, max_size, index)
            IN IF d.blocked
               THEN [c |-> d.c, removed |-> d.removed, reply |-> "", blocked |-> TRUE]
               ELSE [c |-> RebuildLoop(d.c, d.fake, 0, max_size - 1),
                     removed |-> d.removed, reply |-> "Track removed",
                     blocked |-> FALSE]

\* A command suspended in the get of its drain loop stays in it.
Drained(t, cmd, r) ==
    /\ Resolve(t, r.c, IF r.blocked THEN Invocation(cmd, "drain_get") ELSE IdleTask)
    /\ IF r.removed = None /\ ~r.blocked
       THEN UNCHANGED fifo
       ELSE fifo' = [fifo EXCEPT ![get_controller] =
                       IF r.blocked THEN Tainted
                       ELSE LogCut(@, IF cmd = "queue remove" THEN <<r.removed>>
                                      ELSE <<>>)]

QueueRemove(t, index) ==
    /\ Starts(t)
    /\ Drained(t, "queue remove", RemoveAt(Resolved, index))
    /\ UNCHANGED <<player, pendingEnds, nput>>

\* ------------------------------------------------------ Music.queue_move
\* An insert that puts x behind the element at zero-based i.
DequeInsertBehind(q, i, x) ==
    LET k == IF i + 1 > Len(q) THEN Len(q) ELSE i + 1
    IN SubSeq(q, 1, k) \o <<x>> \o SubSeq(q, k + 1, Len(q))

\* collections.deque.insert(i, x), for i >= 0: x goes before the element at
\* zero-based i, or last when i is the length or more.
DequeInsert(q, i, x) ==
    LET k == IF i > Len(q) THEN Len(q) ELSE i
    IN SubSeq(q, 1, k) \o <<x>> \o SubSeq(q, k + 1, Len(q))

\* Lines 657-676: what queue move makes of the controller, the track it moved
\* and its reply.  The insert of line 674 goes to the deque directly: it
\* wakes no getter.
MoveTo(cr, source1, destination1) ==
    LET max_size == Len(cr.queue)
        source_index == source1 - 1
        destination_index == destination1 - 1
    IN IF OutOfRange(source_index, max_size) \/ OutOfRange(destination_index, max_size)
       THEN [c |-> cr, removed |-> None, reply |-> "Index out of range.",
             blocked |-> FALSE]
       ELSE LET d == DrainLoop(cr, <<>>, None, 0, max_size, source_index)
                rebuilt == RebuildLoop(d.c, d.fake, 0, max_size - 1)
            IN IF d.blocked
               THEN [c |-> d.c, removed |-> d.removed, reply |-> "", blocked |-> TRUE]
               ELSE [c |-> [rebuilt EXCEPT
                              !.queue = DequeInsert(@, destination_index, d.removed)],
                     removed |-> d.removed, reply |-> "Track moved", blocked |-> FALSE]

QueueMove(t, source_index, destination_index) ==
    /\ Starts(t)
    /\ Drained(t, "queue move", MoveTo(Resolved, source_index, destination_index))
    /\ UNCHANGED <<player, pendingEnds, nput>>

\* --------------------------------------------------- Music.queue_shuffle
\* The sequence q without its i-th element.
Without(q, i) == SubSeq(q, 1, i - 1) \o SubSeq(q, i + 1, Len(q))

\* A shuffle that leaves the first element everywhere.
ShuffledLossy(q) == {[i \in 1..Len(q) |-> q[1]]}

RECURSIVE Shuffled(_)
\* Line 733: random.shuffle(controller.queue._queue) leaves the deque in one of
\* the orders of its elements: any element first, then the others in any order.
Shuffled(q) ==
    IF q = <<>> THEN {<<>>}
    ELSE UNION {{<<q[i]>> \o rest : rest \in Shuffled(Without(q, i))} : i \in 1..Len(q)}

\* A shuffle without the check of line 728.
ShuffleOfAnyQueue(cr) ==
    {[c |-> [cr EXCEPT !.queue = q], reply |-> "Shuffled!"] : q \in Shuffled(cr.queue)}

\* Lines 728-734: the queues shuffle may leave, and its reply.
ShuffleOf(cr) ==
    IF cr.queue = <<>>
    THEN {[c |-> cr, reply |-> "There's nothing to shuffle!"]}
    ELSE {[c |-> [cr EXCEPT !.queue = q], reply |-> "Shuffled!"] : q \in Shuffled(cr.queue)}

\* The shuffle leaves r, one of ShuffleOf(Resolved).
QueueShuffle(t, r) ==
    /\ Starts(t)
    /\ Resolve(t, r.c, IF Resolved.queue = <<>> THEN IdleTask
                       ELSE CommandTail("queue shuffle", Resolved))
    /\ IF Resolved.queue = <<>>
       THEN UNCHANGED fifo
       ELSE fifo' = [fifo EXCEPT ![get_controller] =
                       IF @.ok
                       THEN [@ EXCEPT !.shuffled = TRUE,
                                      !.overlap = @ \/ \E u \in TaskId :
                                                         task[u].cmd = "queue shuffle"]
                       ELSE @]
    /\ UNCHANGED <<player, pendingEnds, nput>>

\* ----------------------------------------------------- Music.queue_clear
\* A clear that also does what stop does: the flags off, the track stopped.
QueueClearStops(t) ==
    /\ Starts(t)
    /\ Resolve(t, DrainAll([Resolved EXCEPT !.is_queue_loop = FALSE,
                                             !.is_single_loop = FALSE]), IdleTask)
    /\ fifo' = [fifo EXCEPT ![get_controller] = Tainted]
    /\ player' = [player EXCEPT !.current = None]
    /\ UNCHANGED <<pendingEnds, nput>>

\* Lines 605-609.
QueueClear(t) ==
    /\ Starts(t)
    /\ Resolve(t, DrainAll(Resolved), IdleTask)
    /\ fifo' = [fifo EXCEPT ![get_controller] = LogCut(@, Resolved.queue)]
    /\ UNCHANGED <<player, pendingEnds, nput>>

\* ---------------------------------------------------------- Music.volume
\* The volumes asked for: below the range, at its ends, in it and above it.
VolumeInputs == {0 - 1, 0, 70, 200, 201}

\* A clamp that caps the volume and lets a negative one through.
ClampedAbove(new_volume) == IF new_volume < MaxVolume THEN new_volume ELSE MaxVolume

\* Line 788: `max(min(new_volume, 200), 0)`.
Clamped(new_volume) ==
    LET capped == IF new_volume < MaxVolume THEN new_volume ELSE MaxVolume
    IN IF capped > MinVolume THEN capped ELSE MinVolume

\* Lines 786-797: the controller's volume is set, and Player.set_volume sets
\* the player's before it sends the change to the node.
Volume(t, new_volume) ==
    /\ Starts(t)
    /\ Resolve(t, [Resolved EXCEPT !.volume = Clamped(new_volume)],
               CommandTail("volume", Resolved))
    /\ player' = [player EXCEPT !.volume = Clamped(new_volume)]
    /\ UNCHANGED <<pendingEnds, nput, fifo>>

\* ------------------------------------- Music.skip, stop and disconnect
\* `await controller.player.stop()`: the stop is sent to the node, which ends
\* the track it plays, if any, and reports that with a TrackEnd.
SendStop ==
    IF player.current # None
    THEN /\ pendingEnds < MaxPending
         /\ QueueInBounds
         /\ pendingEnds' = pendingEnds + 1
    ELSE UNCHANGED pendingEnds

\* Lines 814-819.
Skip(t) ==
    /\ Starts(t)
    /\ IF ~is_playing
       THEN /\ Resolve(t, Resolved, IdleTask)
            /\ UNCHANGED pendingEnds
       ELSE /\ Resolve(t, Resolved, Invocation("skip", "stop_sent"))
            /\ SendStop
    /\ UNCHANGED <<player, nput, fifo>>

\* Lines 843-848.
Stop(t) ==
    /\ Starts(t)
    /\ IF ~is_playing
       THEN /\ Resolve(t, Resolved, IdleTask)
            /\ UNCHANGED pendingEnds
       ELSE /\ Resolve(t, Resolved, Invocation("stop", "stop_sent"))
            /\ SendStop
    /\ UNCHANGED <<player, nput, fifo>>

\* Lines 275-276.
Disconnect(t) ==
    /\ Starts(t)
    /\ Resolve(t, Resolved, Invocation("disconnect", "stop_sent"))
    /\ SendStop
    /\ UNCHANGED <<player, nput, fifo>>

\* A stop that drains the queue and leaves the loop flags as they are.
StoppedKeepsLoops(cr) == DrainAll(cr)

\* A stop that also puts the volume back to the default.
StoppedResetsVolume(cr) ==
    DrainAll([cr EXCEPT !.is_queue_loop = FALSE, !.is_single_loop = FALSE,
                        !.volume = DefaultVolume])

\* Lines 849-853: the flags and the queue after stop's player.stop().
Stopped(cr) == DrainAll([cr EXCEPT !.is_queue_loop = FALSE, !.is_single_loop = FALSE])

\* player.stop() has returned and the player has dropped its current track:
\* skip replies (line 820); stop clears the flags and the queue (lines
\* 849-855); disconnect drains the queue and disconnects (lines 277-280).
TaskStopReturn(t) ==
    /\ task[t].pc = "stop_sent"
    /\ LET c == task[t].c IN
       CASE task[t].cmd = "skip" ->
              /\ task' = [task EXCEPT ![t] =
                            IF ctrl[c].menu_message THEN IdleTask
                            ELSE [@ EXCEPT !.pc = "reply"]]
              /\ player' = [player EXCEPT !.current = None]
              /\ UNCHANGED <<ctrl, fifo>>
         [] task[t].cmd = "stop" ->
              /\ task' = [task EXCEPT ![t] = IdleTask]
              /\ player' = [player EXCEPT !.current = None]
              /\ ctrl' = [ctrl EXCEPT ![c] = Stopped(@)]
              /\ Taint(c)
         [] OTHER ->
              /\ task' = [task EXCEPT ![t].pc = "disconnect_sent"]
              /\ player' = [player EXCEPT !.current = None, !.connected = FALSE]
              /\ ctrl' = [ctrl EXCEPT ![c] = DrainAll(@)]
              /\ Taint(c)
    /\ UNCHANGED <<registry, nctrl, pendingEnds, nput>>

\* Lines 281-282: `self.controllers.pop(ctx.guild.id)`, which raises when the
\* entry is gone already; either way the command is over.
TaskDisconnectReturn(t) ==
    /\ task[t].pc = "disconnect_sent"
    /\ registry' = None
    /\ task' = [task EXCEPT ![t] = IdleTask]
    /\ UNCHANGED <<nctrl, ctrl, player, pendingEnds, nput, fifo>>

\* ------------------------------------------ Music.pause, resume and seek
\* wavelink's Player.set_pause sends the change to the node and sets `paused`
\* when the send has returned; Player.seek sends the position to the node.

\* A pause without the check of line 401.
PauseUnchecked(t) ==
    /\ Starts(t)
    /\ Resolve(t, Resolved,
               IF player.paused THEN Invocation("pause", "resume_sent")
               ELSE Invocation("pause", "pause_sent"))
    /\ UNCHANGED <<player, pendingEnds, nput, fifo>>

\* Lines 400-408.
Pause(t) ==
    /\ Starts(t)
    /\ Resolve(t, Resolved,
               IF ~is_playing THEN IdleTask
               ELSE IF player.paused THEN Invocation("pause", "resume_sent")
               ELSE Invocation("pause", "pause_sent"))
    /\ UNCHANGED <<player, pendingEnds, nput, fifo>>

\* Lines 754-762.
Resume(t) ==
    /\ Starts(t)
    /\ Resolve(t, Resolved,
               IF ~is_playing THEN IdleTask
               ELSE IF player.paused THEN Invocation("resume", "resume_sent")
               ELSE CommandTail("resume", Resolved))
    /\ UNCHANGED <<player, pendingEnds, nput, fifo>>

\* Lines 467-471.
Seek(t) ==
    /\ Starts(t)
    /\ Resolve(t, Resolved,
               IF ~is_playing THEN IdleTask ELSE Invocation("seek", "seek_sent"))
    /\ UNCHANGED <<player, pendingEnds, nput, fifo>>

\* set_pause has returned (lines 405-409, 759-760): the player is paused or
\* not as asked, then the reply and the menu tail.
TaskPauseReturn(t) ==
    /\ task[t].pc \in {"pause_sent", "resume_sent"}
    /\ player' = [player EXCEPT !.paused = (task[t].pc = "pause_sent")]
    /\ task' = [task EXCEPT ![t] =
                  IF ctrl[task[t].c].menu_message THEN IdleTask
                  ELSE [@ EXCEPT !.pc = "reply"]]
    /\ UNCHANGED <<registry, nctrl, ctrl, pendingEnds, nput, fifo>>

\* seek has returned (line 472): the reply, and the command is over.
TaskSeekReturn(t) ==
    /\ task[t].pc = "seek_sent"
    /\ task' = [task EXCEPT ![t] = IdleTask]
    /\ UNCHANGED <<registry, nctrl, ctrl, player, pendingEnds, nput, fifo>>

\* The commands that begin with the check of `controller.player.is_playing`,
\* and what the command replies in its first stretch, "" when it has none
\* to send there (lines 402, 469, 729, 756, 816, 845).
ChecksPlaying == {"pause", "resume", "seek", "skip", "stop"}

FirstReply(cmd) ==
    IF cmd \in ChecksPlaying /\ ~is_playing
    THEN CASE cmd = "pause" -> "There's nothing to pause you dummy."
           [] cmd = "resume" -> "There's nothing to resume from."
           [] cmd = "seek" -> "There's no song to seek."
           [] cmd = "skip" -> "There are no songs to skip."
           [] cmd = "stop" -> "There's nothing to stop."
    ELSE IF cmd = "queue shuffle" /\ Resolved.queue = <<>>
         THEN "There's nothing to shuffle!"
         ELSE IF cmd = "resume" /\ ~player.paused THEN "Player is not paused."
              ELSE ""

\* ------------------------------------------------------ Music.cog_unload
\* An unload that drains the queues of the controllers it drops.
CogUnloadDrains ==
    /\ registry # None
    /\ registry' = None
    /\ ctrl' = [c \in CtrlId |-> DrainAll(ctrl[c])]
    /\ UNCHANGED <<nctrl, player, pendingEnds, nput, task, fifo>>

\* Lines 200-203: `self.controllers = {}`.
CogUnload ==
    /\ registry # None
    /\ registry' = None
    /\ UNCHANGED <<nctrl, ctrl, player, pendingEnds, nput, task, fifo>>

\* ---------------------------------------------------------- the program

Init ==
    /\ registry = None
    /\ nctrl = 0
    /\ ctrl = [c \in CtrlId |-> Absent]
    /\ player = NoPlayer
    /\ pendingEnds = 0
    /\ nput = 0
    /\ task = [t \in TaskId |-> IdleTask]
    /\ press = [t \in TaskId |-> NoPress]
    /\ buckets = [cmd \in Limited |-> None]
    /\ fifo = [c \in CtrlId |-> NoLog]
    /\ lastOp = NoOp

MainIndex == 1..MaxPuts

Controller ==
    \E c \in CtrlId :
        \/ CtrlStart(c) /\ UNCHANGED <<lastOp, press, buckets>>
        \/ CtrlPlayReturn(c) /\ UNCHANGED <<lastOp, press, buckets>>
        \/ CtrlWake(c) /\ UNCHANGED <<lastOp, press, buckets>>
        \/ CtrlGetWake(c) /\ UNCHANGED <<lastOp, press, buckets>>

Node ==
    \/ \E ev \in EventTypes : TrackEvent(ev) /\ UNCHANGED <<lastOp, press, buckets>>
    \/ StopEvent /\ UNCHANGED <<lastOp, press, buckets>>

Commands ==
    \E t \in TaskId :
        \/ \E inVoice \in BOOLEAN : Play(t, inVoice) /\ UNCHANGED <<lastOp, press, buckets>>
        \/ PlayConnect(t) /\ UNCHANGED <<lastOp, press, buckets>>
        \/ \E n \in 0..2 : PlayTracks(t, n) /\ UNCHANGED <<lastOp, press, buckets>>
        \/ Repeat(t) /\ UNCHANGED <<lastOp, press, buckets>>
        \/ QueueLoop(t) /\ UNCHANGED <<lastOp, press, buckets>>
        \/ \E i \in MainIndex : QueueRemove(t, i) /\ UNCHANGED <<lastOp, press, buckets>>
        \/ \E i, j \in MainIndex : QueueMove(t, i, j) /\ UNCHANGED <<lastOp, press, buckets>>
        \/ \E r \in ShuffleOf(Resolved) : QueueShuffle(t, r) /\ UNCHANGED <<lastOp, press, buckets>>
        \/ QueueClear(t) /\ UNCHANGED <<lastOp, press, buckets>>
        \/ Skip(t) /\ UNCHANGED <<lastOp, press, buckets>>
        \/ Stop(t) /\ UNCHANGED <<lastOp, press, buckets>>
        \/ TaskStopReturn(t) /\ UNCHANGED <<lastOp, press, buckets>>
        \/ TaskReplyReturn(t) /\ UNCHANGED <<lastOp, press, buckets>>
        \/ TaskMenuStarted(t) /\ UNCHANGED <<lastOp, press, buckets>>

Next ==
    \/ Controller
    \/ Node
    \/ Commands

Spec == Init /\ [][Next]_vars

\* ------------------------------------------------- the way of the tracks
\* The program while the guild uses play, queue shuffle and skip only: what
\* puts tracks in the queue, what reorders them, and what makes the loop get
\* the next one.
PlayCommands ==
    \E t \in TaskId :
        \/ \E inVoice \in BOOLEAN : Play(t, inVoice) /\ UNCHANGED <<lastOp, press, buckets>>
        \/ PlayConnect(t) /\ UNCHANGED <<lastOp, press, buckets>>
        \/ \E n \in 0..2 : PlayTracks(t, n) /\ UNCHANGED <<lastOp, press, buckets>>
        \/ \E r \in ShuffleOf(Resolved) : QueueShuffle(t, r) /\ UNCHANGED <<lastOp, press, buckets>>
        \/ Skip(t) /\ UNCHANGED <<lastOp, press, buckets>>
        \/ TaskStopReturn(t) /\ UNCHANGED <<lastOp, press, buckets>>
        \/ TaskReplyReturn(t) /\ UNCHANGED <<lastOp, press, buckets>>
        \/ TaskMenuStarted(t) /\ UNCHANGED <<lastOp, press, buckets>>

NextPlay ==
    \/ Controller
    \/ Node
    \/ PlayCommands

SpecPlay == Init /\ [][NextPlay]_vars

\* ----------------------------------------- one operation on a controller
\* The operations are also applied, one at a time, to a controller whose loop
\* plays a track and waits for the event of line 60, with any queue, flags and
\* event: the states play, the flag commands and the node's events lead to.

\* The queues drawn: n tracks of k kinds, 1, 2, .., k, 1, 2, ..
DrawnQueues ==
    {[i \in 1..n |-> ((i - 1) % k) + 1] : n \in 0..MaxQLen, k \in 1..MaxQLen}

\* The current tracks drawn: one that may be queued as well, one that is not.
DrawnCurrent == {1, MaxQLen + 1}

DrawnControllers ==
    {[NewController EXCEPT !.queue = q, !.current_track = T, !.next = n,
                           !.is_single_loop = s, !.is_queue_loop = l,
                           !.channel = TRUE, !.menu_message = TRUE, !.pc = "wait"] :
        q \in DrawnQueues, T \in DrawnCurrent, n \in BOOLEAN, s \in BOOLEAN, l \in BOOLEAN}

InitOps ==
    /\ registry = 1
    /\ nctrl = 1
    /\ ctrl \in {[c \in CtrlId |-> IF c = 1 THEN d ELSE Absent] : d \in DrawnControllers}
    /\ player = [NoPlayer EXCEPT !.connected = TRUE, !.volume = DefaultVolume,
                                 !.current = IF ctrl[1].next THEN None
                                             ELSE ctrl[1].current_track]
    /\ pendingEnds = 0
    /\ nput = MaxPuts
    /\ task = [t \in TaskId |-> IdleTask]
    /\ press = [t \in TaskId |-> NoPress]
    /\ buckets = [cmd \in Limited |-> None]
    /\ fifo = [c \in CtrlId |-> Tainted]
    /\ lastOp = NoOp

\* No operation has been applied to the controller drawn yet.
Unapplied == lastOp = NoOp

\* The operation of the step is recorded.
Applied(cmd, src, dst, reply, track) ==
    lastOp' = [cmd |-> cmd, src |-> src, dst |-> dst, reply |-> reply,
               track |-> track, was |-> Resolved, now |-> ctrl'[get_controller],
               pwas |-> player, pnow |-> player']

OpRemove(t, i) ==
    /\ Unapplied
    /\ QueueRemove(t, i)
    /\ Applied("queue remove", i, 0, RemoveAt(Resolved, i).reply,
               RemoveAt(Resolved, i).removed)
    /\ UNCHANGED <<press, buckets>>

OpMove(t, i, j) ==
    /\ Unapplied
    /\ QueueMove(t, i, j)
    /\ Applied("queue move", i, j, MoveTo(Resolved, i, j).reply,
               MoveTo(Resolved, i, j).removed)
    /\ UNCHANGED <<press, buckets>>

OpShuffle(t) ==
    /\ Unapplied
    /\ \E r \in ShuffleOf(Resolved) :
          /\ QueueShuffle(t, r)
          /\ Applied("queue shuffle", 0, 0, r.reply, None)
    /\ UNCHANGED <<press, buckets>>

OpClear(t) ==
    /\ Unapplied
    /\ QueueClear(t)
    /\ Applied("queue clear", 0, 0, "", None)
    /\ UNCHANGED <<press, buckets>>

OpRepeat(t) ==
    /\ Unapplied
    /\ Repeat(t)
    /\ Applied("repeat", 0, 0, "", None)
    /\ UNCHANGED <<press, buckets>>

OpQueueLoop(t) ==
    /\ Unapplied
    /\ QueueLoop(t)
    /\ Applied("queue loop", 0, 0, "", None)
    /\ UNCHANGED <<press, buckets>>

OpWake(c) ==
    /\ Unapplied
    /\ CtrlWake(c)
    /\ Applied("wake", 0, 0, "", None)
    /\ UNCHANGED <<press, buckets>>

OpVolume(t, new_volume) ==
    /\ Unapplied
    /\ Volume(t, new_volume)
    /\ Applied("volume", new_volume, 0, "", None)
    /\ UNCHANGED <<press, buckets>>

\* The node reports an event for the track the player plays.
OpEvent(ev) ==
    /\ Unapplied
    /\ player.current # None
    /\ OnEvent(ev)
    /\ UNCHANGED <<pendingEnds, nput, task, fifo>>
    /\ Applied(ev, 0, 0, "", None)
    /\ UNCHANGED <<press, buckets>>

\* The loop is resumed by the event recorded: the controller and the player
\* it leaves replace the ones the event left, and dst tells that it has run.
OpEventWake(c) ==
    /\ lastOp.cmd \in {"TrackEnd", "TrackException"}
    /\ lastOp.dst = 0
    /\ CtrlWake(c)
    /\ lastOp' = [lastOp EXCEPT !.dst = 1, !.now = ctrl'[c], !.pnow = player']
    /\ UNCHANGED <<press, buckets>>

NextOps ==
    \/ \E ev \in EventTypes : OpEvent(ev)
    \/ \E c \in CtrlId : OpEventWake(c)
    \/ \E t \in TaskId :
        \/ \E i \in IndexInputs : OpRemove(t, i)
        \/ \E i, j \in IndexInputs : OpMove(t, i, j)
        \/ OpShuffle(t)
        \/ OpClear(t)
        \/ OpRepeat(t)
        \/ OpQueueLoop(t)
        \/ \E v \in VolumeInputs : OpVolume(t, v)
    \/ \E c \in CtrlId : OpWake(c)

SpecOps == InitOps /\ [][NextOps]_vars

\* ------------------------------------------- the life of the controllers
\* The program while the guild plays, sets the volume and disconnects, and the
\* cog is unloaded: what registers a controller, what drops it from the
\* registry, and what the loops of the controllers dropped go on to do.

\* The controllers drawn: the loop has played track 1 and waits for its end;
\* the guild has left the volume and the flags alone, or has set the volume
\* (line 789) and repeat (line 489).
LifeControllers ==
    {[NewController EXCEPT !.current_track = 1, !.volume = v, !.is_single_loop = s,
                           !.channel = TRUE, !.menu_message = TRUE, !.pc = "wait"] :
        <<v, s>> \in {<<DefaultVolume, FALSE>>} \cup
                     {<<MaxVolume, TRUE>>}}

InitLife ==
    /\ registry = 1
    /\ nctrl = 1
    /\ ctrl \in {[c \in CtrlId |-> IF c = 1 THEN d ELSE Absent] : d \in LifeControllers}
    /\ player = [NoPlayer EXCEPT !.connected = TRUE, !.volume = ctrl[1].volume,
                                 !.current = 1]
    /\ pendingEnds = 0
    /\ nput = 1
    /\ task = [t \in TaskId |-> IdleTask]
    /\ press = [t \in TaskId |-> NoPress]
    /\ buckets = [cmd \in Limited |-> None]
    /\ fifo = [c \in CtrlId |-> Tainted]
    /\ lastOp = NoOp

\* Line 260, the cooldown of disconnect (one per guild in five seconds): no
\* disconnect begins while another one runs.
DisconnectCooldown == \A u \in TaskId : task[u].cmd # "disconnect"

LifeDisconnect(t) ==
    /\ DisconnectCooldown
    /\ Disconnect(t)
    /\ UNCHANGED <<lastOp, press, buckets>>

\* disconnect is over: the controller it has torn down is recorded.
Disconnected(t) ==
    /\ TaskDisconnectReturn(t)
    /\ lastOp' = [NoOp EXCEPT !.cmd = "disconnect", !.src = task[t].c,
                              !.was = ctrl[task[t].c], !.pwas = player]
    /\ UNCHANGED <<press, buckets>>

LifeCommands ==
    \E t \in TaskId :
        \/ Play(t, TRUE) /\ UNCHANGED <<lastOp, press, buckets>>
        \/ PlayConnect(t) /\ UNCHANGED <<lastOp, press, buckets>>
        \/ \E n \in 0..1 : PlayTracks(t, n) /\ UNCHANGED <<lastOp, press, buckets>>
        \/ LifeDisconnect(t)
        \/ TaskStopReturn(t) /\ UNCHANGED <<lastOp, press, buckets>>
        \/ Disconnected(t)
        \/ TaskReplyReturn(t) /\ UNCHANGED <<lastOp, press, buckets>>
        \/ TaskMenuStarted(t) /\ UNCHANGED <<lastOp, press, buckets>>

LifeNode ==
    \/ TrackEvent("TrackEnd") /\ UNCHANGED <<lastOp, press, buckets>>
    \/ StopEvent /\ UNCHANGED <<lastOp, press, buckets>>

Unload == CogUnload /\ UNCHANGED <<lastOp, press, buckets>>

NextLife ==
    \/ Controller
    \/ LifeNode
    \/ LifeCommands
    \/ Unload

SpecLife == InitLife /\ [][NextLife]_vars

\* ------------------------------------------------------- one stop command
\* The program around one stop: a controller whose loop has handed track 1 to
\* the player, with any flags, a volume and a queue; the guild invokes stop
\* once, and play before or after it; the node reports ends and failures.

\* The controllers drawn: the loop awaits the play of track 1 (line 54) or its
\* end (line 60).
StopControllers ==
    {[NewController EXCEPT !.current_track = 1, !.queue = q, !.volume = v,
                           !.is_single_loop = s, !.is_queue_loop = l,
                           !.channel = TRUE, !.menu_message = TRUE, !.pc = pc] :
        q \in {<<>>, <<2>>}, v \in {DefaultVolume, MaxVolume},
        s \in BOOLEAN, l \in BOOLEAN, pc \in {"play", "wait"}}

InitStop ==
    /\ registry = 1
    /\ nctrl = 1
    /\ ctrl \in {[c \in CtrlId |-> IF c = 1 THEN d ELSE Absent] : d \in StopControllers}
    /\ player = [NoPlayer EXCEPT !.connected = TRUE, !.volume = ctrl[1].volume,
                                 !.current = 1]
    /\ pendingEnds = 0
    /\ nput = 1 + Len(ctrl[1].queue)
    /\ task = [t \in TaskId |-> IdleTask]
    /\ press = [t \in TaskId |-> NoPress]
    /\ buckets = [cmd \in Limited |-> None]
    /\ fifo = [c \in CtrlId |-> Tainted]
    /\ lastOp = NoOp

StopReply == "Stopped the player."

\* The one stop is invoked on a player that plays: the controller and the
\* player it finds are recorded.
StopInvoked(t) ==
    /\ Unapplied
    /\ is_playing
    /\ Stop(t)
    /\ lastOp' = [NoOp EXCEPT !.cmd = "stop", !.was = Resolved, !.pwas = player]
    /\ UNCHANGED <<press, buckets>>

\* The stop is over (line 855): the controller and the player it leaves are
\* recorded.
StopReturned(t) ==
    /\ task[t].cmd = "stop"
    /\ TaskStopReturn(t)
    /\ lastOp' = [lastOp EXCEPT !.reply = StopReply, !.now = ctrl'[task[t].c],
                                !.pnow = player']
    /\ UNCHANGED <<press, buckets>>

\* A stretch of the loop that ends in `await self.player.play(..)` has handed
\* a track to the player: the last one handed since the stop was over is
\* recorded.
Handed(c) ==
    /\ lastOp' = IF lastOp.reply = StopReply /\ ctrl'[c].pc = "play"
                 THEN [lastOp EXCEPT !.track = ctrl'[c].current_track]
                 ELSE lastOp
    /\ UNCHANGED <<press, buckets>>

NextStop ==
    \/ \E c \in CtrlId :
        \/ CtrlPlayReturn(c) /\ Handed(c)
        \/ CtrlWake(c) /\ Handed(c)
        \/ CtrlGetWake(c) /\ Handed(c)
    \/ \E ev \in {"TrackEnd", "TrackException"} : TrackEvent(ev) /\ UNCHANGED <<lastOp, press, buckets>>
    \/ StopEvent /\ UNCHANGED <<lastOp, press, buckets>>
    \/ \E t \in TaskId :
        \/ StopInvoked(t)
        \/ StopReturned(t)
        \/ Play(t, TRUE) /\ UNCHANGED <<lastOp, press, buckets>>
        \/ \E n \in 0..1 : PlayTracks(t, n) /\ UNCHANGED <<lastOp, press, buckets>>

SpecStop == InitStop /\ [][NextStop]_vars

\* The same while nothing is put in a queue: the guild disconnects, and the
\* controllers are constructed for a disconnect, for a play of somebody who
\* is in no voice channel (lines 356-360) and for the events of the node.
ForgetCommands ==
    \E t \in TaskId :
        \/ Play(t, FALSE) /\ UNCHANGED <<lastOp, press, buckets>>
        \/ LifeDisconnect(t)
        \/ TaskStopReturn(t) /\ UNCHANGED <<lastOp, press, buckets>>
        \/ Disconnected(t)

ForgetLoops ==
    \E c \in CtrlId :
        \/ CtrlStart(c) /\ UNCHANGED <<lastOp, press, buckets>>
        \/ CtrlPlayReturn(c) /\ UNCHANGED <<lastOp, press, buckets>>
        \/ CtrlWake(c) /\ UNCHANGED <<lastOp, press, buckets>>

NextForget ==
    \/ ForgetLoops
    \/ LifeNode
    \/ ForgetCommands
    \/ Unload

SpecForget == InitLife /\ [][NextForget]_vars

\* The event loop runs every task that can go on, the node reports the end
\* of a track it was told to stop, and every call the commands await returns:
\* the loop tasks, the TrackEnd of a stop and the commands in flight are not
\* held up for ever.  Nothing makes the guild invoke a command, a track end,
\* or the cog be unloaded.
LoopRuns(c) ==
    \/ CtrlStart(c) /\ UNCHANGED <<lastOp, press, buckets>>
    \/ CtrlPlayReturn(c) /\ UNCHANGED <<lastOp, press, buckets>>
    \/ CtrlWake(c) /\ UNCHANGED <<lastOp, press, buckets>>
    \/ CtrlGetWake(c) /\ UNCHANGED <<lastOp, press, buckets>>

LifeGoesOn(t) ==
    \/ PlayConnect(t) /\ UNCHANGED <<lastOp, press, buckets>>
    \/ \E n \in 0..1 : PlayTracks(t, n) /\ UNCHANGED <<lastOp, press, buckets>>
    \/ TaskStopReturn(t) /\ UNCHANGED <<lastOp, press, buckets>>
    \/ Disconnected(t)
    \/ TaskReplyReturn(t) /\ UNCHANGED <<lastOp, press, buckets>>
    \/ TaskMenuStarted(t) /\ UNCHANGED <<lastOp, press, buckets>>

LifeFairness ==
    /\ \A c \in CtrlId : WF_vars(LoopRuns(c))
    /\ \A t \in TaskId : WF_vars(LifeGoesOn(t))
    /\ WF_vars(StopEvent /\ UNCHANGED <<lastOp, press, buckets>>)

SpecLifeFair == InitLife /\ [][NextLife]_vars /\ LifeFairness

\* ------------------------------------------------------ the volume command
\* The program while the guild sets the volume: controllers are constructed
\* for a volume command and for a play of somebody who is in no voice channel,
\* their loops start (line 46), and the cog is unloaded.

\* A volume command is invoked: what it asked for, whether its get_controller
\* constructed the controller (dst), and the controller and the player before
\* and after it are recorded.
\* Line 771, the cooldown of volume (one per guild in three seconds): no
\* volume begins while another one runs.
VolumeCooldown == \A u \in TaskId : task[u].cmd # "volume"

VolumeSet(t, new_volume) ==
    /\ VolumeCooldown
    /\ Volume(t, new_volume)
    /\ Applied("volume", new_volume, IF registry = None THEN 1 ELSE 0, "", None)
    /\ UNCHANGED <<press, buckets>>

NextVolume ==
    \/ \E c \in CtrlId : CtrlStart(c) /\ UNCHANGED <<lastOp, press, buckets>>
    \/ Unload
    \/ \E t \in TaskId :
        \/ \E v \in VolumeInputs : VolumeSet(t, v)
        \/ TaskReplyReturn(t) /\ UNCHANGED <<lastOp, press, buckets>>
        \/ TaskMenuStarted(t) /\ UNCHANGED <<lastOp, press, buckets>>

SpecVolume == Init /\ [][NextVolume]_vars

\* ------------------------------------------------------------ the registry
\* The registry under everything that resolves a controller, removes one or
\* clears it: a controller that plays, with a queue and flags, then commands
\* of somebody in no voice channel, disconnect, the node's events and
\* cog_unload.

\* The cog is unloaded: the controller it drops and the player, before and
\* after, are recorded.
Unloaded ==
    /\ CogUnload
    /\ lastOp' = [NoOp EXCEPT !.cmd = "cog_unload", !.src = registry,
                              !.was = ctrl[registry], !.now = ctrl'[registry],
                              !.pwas = player, !.pnow = player']
    /\ UNCHANGED <<press, buckets>>

RegistryCommands ==
    \E t \in TaskId :
        \/ Play(t, FALSE) /\ UNCHANGED <<lastOp, press, buckets>>
        \/ LifeDisconnect(t)
        \/ TaskStopReturn(t) /\ UNCHANGED <<lastOp, press, buckets>>
        \/ TaskDisconnectReturn(t) /\ UNCHANGED <<lastOp, press, buckets>>

NextRegistry ==
    \/ ForgetLoops
    \/ LifeNode
    \/ RegistryCommands
    \/ Unloaded

SpecRegistry == InitStop /\ [][NextRegistry]_vars

\* ------------------------------------------------- the menu and its buttons
\* The program while one command of the guild is invoked, by a message or by
\* a press on a button of the menu.  discord.py's part (not in src):
\* `bot.invoke(ctx)` checks and takes the cooldown of `ctx.command` and then
\* runs the command's callback, with no suspension between the two; a
\* command on cooldown raises CommandOnCooldown, which invoke catches and
\* hands to the error handlers, and its callback does not run.  Every cooldown
\* of the cog is declared `BucketType.guild`: the bucket is looked up by the
\* guild of `ctx.message`, and `reset_cooldown(ctx)` empties that bucket.

MaxMembers == 2  \* members of the guild who invoke commands and press buttons
Members == 1..MaxMembers

\* `menu.start(ctx)` keeps the context of the command that started the menu
\* (menus.Menu.start): here a play of member 1.
MenuContext == [author |-> 1, command |-> "play"]

\* An update_context that keeps the author of the menu's context.
update_context_stale(payload) == MenuContext

\* Lines 72-76.
update_context(payload) == [MenuContext EXCEPT !.author = payload.member]

Buttons == {"pause", "skip", "shuffle", "qloop", "loop", "stop", "disconnect"}

\* The handlers with the loop and the queue-loop button crossed.
ButtonCommandCrossed(button) ==
    CASE button = "pause" -> "pause"
      [] button = "skip" -> "skip"
      [] button = "shuffle" -> "queue shuffle"
      [] button = "qloop" -> "repeat"
      [] button = "loop" -> "queue loop"
      [] button = "stop" -> "stop"
      [] button = "disconnect" -> "disconnect"

\* `ctx.command = self.bot.get_command(..)` of on_<button>_button (lines 128,
\* 134, 140, 146, 152, 158, 167).
ButtonCommand(button) ==
    CASE button = "pause" -> "pause"
      [] button = "skip" -> "skip"
      [] button = "shuffle" -> "queue shuffle"
      [] button = "qloop" -> "queue loop"
      [] button = "loop" -> "repeat"
      [] button = "stop" -> "stop"
      [] button = "disconnect" -> "disconnect"

\* The commands invoked by message here; resume has no cooldown (line 740).
TextCommands == Limited \cup {"resume"}

OnCooldownError == "CommandOnCooldown"

\* The guild's bucket of the command is exhausted.
OnCooldown(cmd) == cmd \in Limited /\ buckets[cmd] # None

\* The first stretch of the command's callback.
Run(t, cmd) ==
    CASE cmd = "pause" -> Pause(t)
      [] cmd = "resume" -> Resume(t)
      [] cmd = "seek" -> Seek(t)
      [] cmd = "skip" -> Skip(t)
      [] cmd = "stop" -> Stop(t)
      [] cmd = "disconnect" -> Disconnect(t)
      [] cmd = "repeat" -> Repeat(t)
      [] cmd = "queue loop" -> QueueLoop(t)
      [] cmd = "queue shuffle" -> \E r \in ShuffleOf(Resolved) : QueueShuffle(t, r)

\* `bot.invoke(ctx)` with ctx.author = author and ctx.command = cmd.  The
\* bucket remembers who has exhausted it (history: the program keeps no
\* trace of that).
Invoke(t, author, cmd) ==
    IF OnCooldown(cmd)
    THEN UNCHANGED <<registry, nctrl, ctrl, player, pendingEnds, nput, task, fifo,
                     buckets>>
    ELSE /\ Run(t, cmd)
         /\ buckets' = IF cmd \in Limited THEN [buckets EXCEPT ![cmd] = author]
                       ELSE buckets

\* What the invocation of the step answers at once.
Outcome(cmd) == IF OnCooldown(cmd) THEN OnCooldownError ELSE FirstReply(cmd)

\* A member invokes the command by a message.
Text(t, author, cmd) ==
    /\ Unapplied
    /\ Starts(t)
    /\ Invoke(t, author, cmd)
    /\ Applied(cmd, author, 0, Outcome(cmd), None)
    /\ UNCHANGED press

\* A member presses a button of the running menu of controller m (lines
\* 126-129 and alike): the handler invokes the command as that member and
\* awaits it.
ButtonPress(t, member, button, m) ==
    /\ Unapplied
    /\ Starts(t)
    /\ press[t].pc = "none"
    /\ ctrl[m].menu_message
    /\ LET ctx == update_context([member |-> member])
           cmd == ButtonCommand(button) IN
         /\ Invoke(t, ctx.author, cmd)
         /\ Applied(cmd, ctx.author, 1, Outcome(cmd), None)
         /\ press' = [press EXCEPT ![t] =
                        [button |-> button, member |-> member, author |-> ctx.author,
                         pc |-> IF task'[t].pc = "idle" THEN "returned" ELSE "invoke",
                         menu |-> m]]

\* A later stretch of the command goes on; the handler that awaits the
\* command goes on when the command is over.
Awaited ==
    /\ press' = [t \in TaskId |->
                   IF press[t].pc = "invoke" /\ task'[t].pc = "idle"
                   THEN [press[t] EXCEPT !.pc = "returned"]
                   ELSE press[t]]
    /\ UNCHANGED <<lastOp, buckets>>

\* A handler that leaves the cooldown as the command has left it.
PressReturnedNoReset(t) ==
    /\ press[t].pc = "returned"
    /\ press' = [press EXCEPT ![t] =
                   IF press[t].button \in {"stop", "disconnect"}
                      /\ ctrl[press[t].menu].menu_message
                   THEN [@ EXCEPT !.pc = "delete"]
                   ELSE NoPress]
    /\ UNCHANGED <<registry, nctrl, ctrl, player, pendingEnds, nput, task, fifo,
                   buckets, lastOp>>

\* `bot.invoke` has returned: `ctx.command.reset_cooldown(ctx)` (lines 130,
\* 136, 142, 148, 154, 160, 169); the stop and the disconnect button go on to
\* `await self.message.delete()` (lines 161, 170), which raises when the
\* message is None.
PressReturned(t) ==
    /\ press[t].pc = "returned"
    /\ buckets' = [buckets EXCEPT ![ButtonCommand(press[t].button)] = None]
    /\ press' = [press EXCEPT ![t] =
                   IF press[t].button \in {"stop", "disconnect"}
                      /\ ctrl[press[t].menu].menu_message
                   THEN [@ EXCEPT !.pc = "delete"]
                   ELSE NoPress]
    /\ UNCHANGED <<registry, nctrl, ctrl, player, pendingEnds, nput, task, fifo,
                   lastOp>>

\* The message is deleted: `self.message = None; self.stop()` (lines 162-163,
\* 171-172).
PressDeleted(t) ==
    /\ press[t].pc = "delete"
    /\ ctrl' = [ctrl EXCEPT ![press[t].menu].menu_message = FALSE]
    /\ press' = [press EXCEPT ![t] = NoPress]
    /\ UNCHANGED <<registry, nctrl, player, pendingEnds, nput, task, fifo, buckets,
                   lastOp>>

\* The controllers drawn: the loop has played track 1 and waits for its end,
\* with any flags and a queue, and the menu runs.
MenuControllers ==
    {[NewController EXCEPT !.current_track = 1, !.queue = q,
                           !.is_single_loop = s, !.is_queue_loop = l,
                           !.channel = TRUE, !.menu_message = TRUE, !.pc = "wait"] :
        q \in {<<>>, <<2>>}, s \in BOOLEAN, l \in BOOLEAN}

\* The guild has a controller whose player plays or is paused, or has none
\* yet; the cooldowns are free, or a member has just used every command.
InitMenu ==
    /\ \/ /\ registry = 1
          /\ nctrl = 1
          /\ ctrl \in {[c \in CtrlId |-> IF c = 1 THEN d ELSE Absent] :
                          d \in MenuControllers}
          /\ player \in {[NoPlayer EXCEPT !.connected = TRUE, !.volume = DefaultVolume,
                                          !.current = 1, !.paused = p] : p \in BOOLEAN}
       \/ /\ registry = None
          /\ nctrl = 0
          /\ ctrl = [c \in CtrlId |-> Absent]
          /\ player = NoPlayer
    /\ pendingEnds = 0
    /\ nput = MaxPuts
    /\ task = [t \in TaskId |-> IdleTask]
    /\ press = [t \in TaskId |-> NoPress]
    /\ buckets \in {[cmd \in Limited |-> h] : h \in {None} \cup Members}
    /\ fifo = [c \in CtrlId |-> Tainted]
    /\ lastOp = NoOp

MenuCommands ==
    \E t \in TaskId :
        \/ \E author \in Members, cmd \in TextCommands : Text(t, author, cmd)
        \/ \E member \in Members, button \in Buttons, m \in CtrlId :
              ButtonPress(t, member, button, m)
        \/ TaskStopReturn(t) /\ Awaited
        \/ TaskDisconnectReturn(t) /\ Awaited
        \/ TaskPauseReturn(t) /\ Awaited
        \/ TaskSeekReturn(t) /\ Awaited
        \/ TaskReplyReturn(t) /\ Awaited
        \/ TaskMenuStarted(t) /\ Awaited
        \/ PressReturned(t)
        \/ PressDeleted(t)

NextMenu ==
    \/ ForgetLoops
    \/ LifeNode
    \/ MenuCommands

SpecMenu == InitMenu /\ [][NextMenu]_vars

\* ------------------------------------------------ the queue and its users
\* The program while the guild uses play and the queue commands remove, move,
\* shuffle and clear: every task that puts tracks in a queue, takes tracks
\* out of it or reorders it, next to the loop that gets from it.
QueueCommands ==
    \E t \in TaskId :
        \/ \E inVoice \in BOOLEAN : Play(t, inVoice) /\ UNCHANGED <<lastOp, press, buckets>>
        \/ PlayConnect(t) /\ UNCHANGED <<lastOp, press, buckets>>
        \/ \E n \in 0..2 : PlayTracks(t, n) /\ UNCHANGED <<lastOp, press, buckets>>
        \/ \E i \in MainIndex : QueueRemove(t, i) /\ UNCHANGED <<lastOp, press, buckets>>
        \/ \E i, j \in MainIndex : QueueMove(t, i, j) /\ UNCHANGED <<lastOp, press, buckets>>
        \/ \E r \in ShuffleOf(Resolved) : QueueShuffle(t, r) /\ UNCHANGED <<lastOp, press, buckets>>
        \/ QueueClear(t) /\ UNCHANGED <<lastOp, press, buckets>>
        \/ TaskReplyReturn(t) /\ UNCHANGED <<lastOp, press, buckets>>
        \/ TaskMenuStarted(t) /\ UNCHANGED <<lastOp, press, buckets>>

QueueNode == \E ev \in EventTypes : TrackEvent(ev) /\ UNCHANGED <<lastOp, press, buckets>>

NextQueue ==
    \/ Controller
    \/ QueueNode
    \/ QueueCommands

SpecQueue == Init /\ [][NextQueue]_vars

\* The event loop runs every loop task that can go on.
SpecQueueFair == Init /\ [][NextQueue]_vars /\ \A c \in CtrlId : WF_vars(LoopRuns(c))

\* ------------------------------------------------ the commands that dequeue
\* The program while the guild uses the commands that take tracks out of a
\* queue: queue remove, queue move, queue clear, stop and disconnect.

\* The controllers drawn: the loop waits for the end of track 1 with a queue
\* and a queue-loop flag; or it is suspended in queue.get(), on an empty
\* queue, or woken by the put of a play (lines 371-377) and not resumed yet.
DrainControllers ==
    {[NewController EXCEPT !.current_track = 1, !.queue = q, !.is_queue_loop = l,
                           !.channel = TRUE, !.menu_message = TRUE, !.pc = "wait"] :
        q \in {<<>>, <<2>>}, l \in BOOLEAN}
    \cup
    {[NewController EXCEPT !.current_track = 1, !.queue = q, !.getter = g,
                           !.channel = TRUE, !.menu_message = TRUE, !.pc = "get"] :
        <<q, g>> \in {<< <<>>, "waiting" >>, << <<2>>, "woken" >>,
                      << <<2, 3>>, "woken" >>}}

InitDrain ==
    /\ registry = 1
    /\ nctrl = 1
    /\ ctrl \in {[c \in CtrlId |-> IF c = 1 THEN d ELSE Absent] : d \in DrainControllers}
    /\ player = [NoPlayer EXCEPT !.connected = TRUE, !.volume = DefaultVolume,
                                 !.current = IF ctrl[1].pc = "wait" THEN 1 ELSE None]
    /\ pendingEnds = 0
    /\ nput = MaxPuts
    /\ task = [t \in TaskId |-> IdleTask]
    /\ press = [t \in TaskId |-> NoPress]
    /\ buckets = [cmd \in Limited |-> None]
    /\ fifo = [c \in CtrlId |-> Tainted]
    /\ lastOp = NoOp

\* Line 829, the cooldown of stop (one per guild in five seconds): no stop
\* begins while another one runs.
StopCooldown == \A u \in TaskId : task[u].cmd # "stop"

DrainCommands ==
    \E t \in TaskId :
        \/ \E i \in MainIndex : QueueRemove(t, i) /\ UNCHANGED <<lastOp, press, buckets>>
        \/ \E i, j \in MainIndex : QueueMove(t, i, j) /\ UNCHANGED <<lastOp, press, buckets>>
        \/ QueueClear(t) /\ UNCHANGED <<lastOp, press, buckets>>
        \/ StopCooldown /\ Stop(t) /\ UNCHANGED <<lastOp, press, buckets>>
        \/ DisconnectCooldown /\ Disconnect(t) /\ UNCHANGED <<lastOp, press, buckets>>
        \/ TaskStopReturn(t) /\ UNCHANGED <<lastOp, press, buckets>>
        \/ TaskDisconnectReturn(t) /\ UNCHANGED <<lastOp, press, buckets>>

NextDrain ==
    \/ Controller
    \/ LifeNode
    \/ DrainCommands

SpecDrain == InitDrain /\ [][NextDrain]_vars

\* A command goes on when what it awaits has returned: the player's stop and
\* disconnect return.
CommandRuns(t) ==
    /\ \/ TaskStopReturn(t)
       \/ TaskDisconnectReturn(t)
    /\ UNCHANGED <<lastOp, press, buckets>>

\* The event loop runs every loop task and every command that can go on.
SpecDrainFair ==
    /\ InitDrain
    /\ [][NextDrain]_vars
    /\ \A c \in CtrlId : WF_vars(LoopRuns(c))
    /\ \A t \in TaskId : WF_vars(CommandRuns(t))

\* ------------------------------------------------------------ properties
\* The number of times x occurs in the sequence q.
Count(q, x) == Cardinality({i \in DOMAIN q : q[i] = x})

SameTracks(p, q) == \A x \in Tracks \cup {None} : Count(p, x) = Count(q, x)

InRange(i, q) == i \in 1..Len(q)

\* C1: while play alone puts tracks in a controller's queue (no remove, move,
\* shuffle, clear or stop, and no put of the loop under queue loop), the
\* tracks the loop has got and played, then the tracks still queued, are the
\* tracks put, in the order of their puts.
C1_LoopGetsInPutOrder ==
    \A c \in CtrlId :
        (fifo[c].ok /\ ~fifo[c].shuffled) =>
            fifo[c].put = fifo[c].got \o ctrl[c].queue

\* Two tracks were put and the loop has got both, the second one playing.
C1_Witness ==
    \E c \in CtrlId :
        /\ fifo[c].ok
        /\ ~fifo[c].shuffled
        /\ fifo[c].put = <<1, 2>>
        /\ fifo[c].got = <<1, 2>>
        /\ ctrl[c].pc = "play"
        /\ player.current = 2

\* C2: queue remove with an index i in 1..size removes the track at position
\* i and reports it; the other tracks stay, each once, in their order.
C2_RemoveTakesExactlyTheIndexed ==
    (lastOp.cmd = "queue remove" /\ InRange(lastOp.src, lastOp.was.queue)) =>
        /\ lastOp.track = lastOp.was.queue[lastOp.src]
        /\ lastOp.now.queue = Without(lastOp.was.queue, lastOp.src)

\* queue remove 2 on <<1, 2, 3>> has left <<1, 3>> and reported track 2.
C2_Witness ==
    /\ lastOp.cmd = "queue remove"
    /\ lastOp.src = 2
    /\ lastOp.was.queue = <<1, 2, 3>>
    /\ lastOp.now.queue = <<1, 3>>
    /\ lastOp.track = 2

\* C3: queue move with both indices in 1..size leaves the queue that results
\* from taking the track at position s out and putting it at position d of the
\* shortened queue (last when d is the size); the same tracks are queued.
C3_MoveIsRemoveThenInsert ==
    (/\ lastOp.cmd = "queue move"
     /\ InRange(lastOp.src, lastOp.was.queue)
     /\ InRange(lastOp.dst, lastOp.was.queue)) =>
        LET q == lastOp.was.queue
            short == Without(q, lastOp.src)
        IN /\ lastOp.now.queue = SubSeq(short, 1, lastOp.dst - 1) \o <<q[lastOp.src]>>
                                   \o SubSeq(short, lastOp.dst, Len(short))
           /\ SameTracks(lastOp.now.queue, q)
           /\ lastOp.dst = Len(q) => lastOp.now.queue[Len(q)] = q[lastOp.src]

\* queue move 3 1 on <<1, 2, 3, 4, 5>> has left <<3, 1, 2, 4, 5>>.
C3_Witness ==
    /\ lastOp.cmd = "queue move"
    /\ lastOp.src = 3
    /\ lastOp.dst = 1
    /\ lastOp.was.queue = <<1, 2, 3, 4, 5>>
    /\ lastOp.now.queue = <<3, 1, 2, 4, 5>>

\* C4: queue remove with an index outside 1..size, and queue move with either
\* index outside 1..size, reply "Index out of range." and leave the queue (and
\* the controller) as it was; so on the empty queue, for every index.
C4_OutOfRangeIsRefused ==
    (\/ lastOp.cmd = "queue remove" /\ ~InRange(lastOp.src, lastOp.was.queue)
     \/ lastOp.cmd = "queue move" /\ (\/ ~InRange(lastOp.src, lastOp.was.queue)
                                      \/ ~InRange(lastOp.dst, lastOp.was.queue))) =>
        /\ lastOp.reply = "Index out of range."
        /\ lastOp.now = lastOp.was

\* queue move with a good source and the destination one past the end has been
\* refused on a queue of three tracks.
C4_Witness ==
    /\ lastOp.cmd = "queue move"
    /\ lastOp.src = 2
    /\ lastOp.dst = 4
    /\ lastOp.was.queue = <<1, 2, 3>>
    /\ lastOp.now.queue = <<1, 2, 3>>
    /\ lastOp.reply = "Index out of range."

\* C5: however shuffles interleave with each other, with plays and with the
\* loop, the tracks queued and the tracks the loop has got are the tracks put,
\* each as many times.
C5_ShuffleKeepsTheTracks ==
    \A c \in CtrlId :
        fifo[c].ok => SameTracks(fifo[c].put, fifo[c].got \o ctrl[c].queue)

\* A shuffle has acted while another shuffle invocation was in flight, and the
\* two tracks put are queued in the other order.
C5_Witness ==
    \E c \in CtrlId :
        /\ fifo[c].ok
        /\ fifo[c].overlap
        /\ \E t \in TaskId : task[t].cmd = "queue shuffle" /\ task[t].c = c
        /\ fifo[c].put = <<1, 2>>
        /\ ctrl[c].queue = <<2, 1>>

\* C6: queue shuffle on an empty queue is refused with the reply "There's
\* nothing to shuffle!"; the queue stays empty, and the flags, the current
\* track and the volume (and the player) stay as they were.
C6_EmptyShuffleIsRefused ==
    (lastOp.cmd = "queue shuffle" /\ lastOp.was.queue = <<>>) =>
        /\ lastOp.reply = "There's nothing to shuffle!"
        /\ lastOp.now = lastOp.was
        /\ lastOp.pnow = lastOp.pwas

\* queue shuffle has been refused on an empty queue, with single loop on.
C6_Witness ==
    /\ lastOp.cmd = "queue shuffle"
    /\ lastOp.was.queue = <<>>
    /\ lastOp.was.is_single_loop
    /\ lastOp.reply = "There's nothing to shuffle!"

\* C7: woken by the event with is_single_loop set and current track T, the
\* loop plays T again and takes no track from the queue: the queue it leaves
\* begins with the queue it found.
C7_SingleLoopReplays ==
    (lastOp.cmd = "wake" /\ lastOp.was.is_single_loop) =>
        /\ lastOp.now.current_track = lastOp.was.current_track
        /\ lastOp.pnow.current = lastOp.was.current_track
        /\ lastOp.now.pc = "play"
        /\ Len(lastOp.now.queue) >= Len(lastOp.was.queue)
        /\ SubSeq(lastOp.now.queue, 1, Len(lastOp.was.queue)) = lastOp.was.queue

\* The loop has replayed its track with two other tracks queued, which stay.
C7_Witness ==
    /\ lastOp.cmd = "wake"
    /\ lastOp.was.is_single_loop
    /\ ~lastOp.was.is_queue_loop
    /\ lastOp.was.current_track = MaxQLen + 1
    /\ lastOp.was.queue = <<1, 2>>
    /\ lastOp.now.queue = <<1, 2>>
    /\ lastOp.pwas.current = None
    /\ lastOp.pnow.current = MaxQLen + 1

\* C8: woken by the event with is_queue_loop set and current track T, the loop
\* puts T at the tail of the queue, once, before its next pass: the queue it
\* leaves is the queue it found with T behind it, less the head the next pass
\* takes to play (none with is_single_loop).
C8_QueueLoopPutsBackOnce ==
    (lastOp.cmd = "wake" /\ lastOp.was.is_queue_loop) =>
        LET q == Append(lastOp.was.queue, lastOp.was.current_track)
        IN IF lastOp.was.is_single_loop
           THEN lastOp.now.queue = q
           ELSE /\ lastOp.now.queue = Tail(q)
                /\ lastOp.now.current_track = Head(q)

\* The loop has put track T behind <<1, 2>> and gone on to play track 1.
C8_Witness ==
    /\ lastOp.cmd = "wake"
    /\ lastOp.was.is_queue_loop
    /\ ~lastOp.was.is_single_loop
    /\ lastOp.was.current_track = MaxQLen + 1
    /\ lastOp.was.queue = <<1, 2>>
    /\ lastOp.now.queue = <<2, MaxQLen + 1>>
    /\ lastOp.now.current_track = 1

\* C9: queue loop, invoked with is_single_loop set and is_queue_loop not set,
\* leaves is_queue_loop set and is_single_loop not set.
C9_QueueLoopTurnsSingleLoopOff ==
    (/\ lastOp.cmd = "queue loop"
     /\ lastOp.was.is_single_loop
     /\ ~lastOp.was.is_queue_loop) =>
        /\ lastOp.now.is_queue_loop
        /\ ~lastOp.now.is_single_loop

\* queue loop has been turned on over single loop.
C9_Witness ==
    /\ lastOp.cmd = "queue loop"
    /\ lastOp.was.is_single_loop
    /\ ~lastOp.was.is_queue_loop
    /\ lastOp.now.is_queue_loop
    /\ ~lastOp.now.is_single_loop

\* C10: no controller has is_single_loop and is_queue_loop both set.
C10_FlagsNeverBothSet ==
    \A c \in CtrlId : ~(ctrl[c].is_single_loop /\ ctrl[c].is_queue_loop)
\* What MusicController.__init__ leaves of the fields the guild configures.
Fresh(cr) ==
    /\ cr.volume = DefaultVolume
    /\ cr.queue = <<>>
    /\ ~cr.is_single_loop
    /\ ~cr.is_queue_loop
    /\ cr.current_track = None

\* C11: the step in which disconnect is over leaves the guild without an entry
\* in the registry, and a step that registers a controller for a guild without
\* one registers a controller never registered before, with volume 50, an
\* empty queue, both loop flags false and no current track.
C11_DisconnectForgets ==
    [][/\ \A t \in TaskId :
             task[t].pc = "disconnect_sent" /\ task'[t].pc = "idle" => registry' = None
       /\ registry = None /\ registry' # None =>
             /\ registry' \notin 1..nctrl
             /\ Fresh(ctrl'[registry'])]_vars

\* A disconnect of the controller with volume 200 and repeat on is over, and a
\* second controller has been registered since.
C11_Witness ==
    /\ lastOp.cmd = "disconnect"
    /\ lastOp.src = 1
    /\ ~Fresh(lastOp.was)
    /\ lastOp.was.volume = MaxVolume
    /\ registry = 2

\* The tracks of a controller: its current track and the tracks of its queue.
TracksOf(cr) == {cr.current_track} \cup {cr.queue[i] : i \in DOMAIN cr.queue}

\* C12: once a stop invoked on a playing player is over, it has left the queue
\* empty and both loop flags false, and no track handed to the player since
\* was the current track or in the queue when the stop was invoked, whatever
\* the loop and the node's events did while the stop ran.
C12_StopLeavesNothingToPlay ==
    lastOp.reply = StopReply =>
        /\ lastOp.now.queue = <<>>
        /\ ~lastOp.now.is_single_loop
        /\ ~lastOp.now.is_queue_loop
        /\ lastOp.track # None => lastOp.track \notin TracksOf(lastOp.was)

\* A stop invoked with repeat on is over, and the loop has handed a track to
\* the player since.
C12_Witness ==
    /\ lastOp.reply = StopReply
    /\ lastOp.was.is_single_loop
    /\ lastOp.track # None

\* C13: a stop leaves the controller's volume and the player's volume as it
\* found them.
C13_StopKeepsVolume ==
    lastOp.reply = StopReply =>
        /\ lastOp.now.volume = lastOp.was.volume
        /\ lastOp.pnow.volume = lastOp.pwas.volume

\* A stop of a controller whose volume is not the default is over.
C13_Witness ==
    /\ lastOp.reply = StopReply
    /\ lastOp.was.volume = MaxVolume
    /\ lastOp.pwas.volume = MaxVolume

\* C14: a TrackException does to the controller what a TrackEnd does: either
\* sets the event and drops the player's current track, and changes nothing
\* else; the loop then leaves its wait and goes on as the flags say, and with
\* both flags off the track that ended or failed is neither played again nor
\* put back: the loop gets the head of the queue, or waits for one.
C14_ExceptionIsAnEnd ==
    lastOp.cmd \in {"TrackEnd", "TrackException"} =>
        IF lastOp.dst = 0
        THEN /\ lastOp.now = [lastOp.was EXCEPT !.next = TRUE]
             /\ lastOp.pnow = [lastOp.pwas EXCEPT !.current = None]
        ELSE /\ lastOp.now.pc \in {"play", "get"}
             /\ lastOp.was.is_single_loop =>
                    /\ lastOp.now.current_track = lastOp.was.current_track
                    /\ lastOp.pnow.current = lastOp.was.current_track
             /\ ~lastOp.was.is_single_loop /\ lastOp.was.is_queue_loop =>
                    lastOp.now.queue = Tail(Append(lastOp.was.queue, lastOp.was.current_track))
             /\ ~lastOp.was.is_single_loop /\ ~lastOp.was.is_queue_loop =>
                    IF lastOp.was.queue = <<>>
                    THEN lastOp.now.pc = "get" /\ lastOp.now.queue = <<>>
                    ELSE /\ lastOp.now.current_track = Head(lastOp.was.queue)
                         /\ lastOp.now.queue = Tail(lastOp.was.queue)

\* A TrackException has resumed a loop with both flags off and a queue that
\* holds the failed track once more: the loop plays the head of the queue.
C14_Witness ==
    /\ lastOp.cmd = "TrackException"
    /\ lastOp.dst = 1
    /\ ~lastOp.was.is_single_loop
    /\ ~lastOp.was.is_queue_loop
    /\ Len(lastOp.was.queue) > 1
    /\ lastOp.now.pc = "play"

\* C15: no loop task is ended by an error that player.play raises: no
\* controller's loop is over with the play of line 54 having failed (the one
\* play that fails here is the play of a current track that is None).
C15_LoopOutlivesPlayErrors ==
    \A c \in CtrlId : ~(ctrl[c].pc = "crashed" /\ ctrl[c].current_track = None)

\* C16: the loop is never run by two tasks at once for the guild: no two
\* controllers' loops are inside the play of line 54, on the guild's one
\* player, at the same time.
C16_OneLoopPerGuild ==
    \A c, d \in CtrlId : ctrl[c].pc = "play" /\ ctrl[d].pc = "play" => c = d

\* C17: a disconnect that has sent the stop to the player (line 276), drained
\* the queue or disconnected the player has taken the controller out of the
\* registry before: while it runs, the registry does not hold its controller.
C17_RegistryEntryGoesFirst ==
    \A t \in TaskId : task[t].cmd = "disconnect" => registry # task[t].c

\* The loop of controller c is suspended in queue.get() or in next.wait().
Waits(c) == ctrl[c].pc \in {"get", "wait"}

\* C18: once a disconnect of controller c is over, the loop of c does not stay
\* suspended in its get or its wait for ever: it leaves them.
C18_TornDownLoopLeavesItsWait ==
    \A c \in CtrlId : (lastOp.cmd = "disconnect" /\ lastOp.src = c) ~> ~Waits(c)

NoRepeats(q) == \A i, j \in DOMAIN q : q[i] = q[j] => i = j

\* C20: whatever the order in which play, queue remove, queue move, queue
\* shuffle, queue clear and the loop take their turns on a controller, no
\* command is ever suspended inside its drain loop with the queue half
\* drained, and no track is lost or doubled: the tracks in the queue are,
\* each once, the tracks play has put less the ones the loop has got and the
\* ones remove and clear have taken out.
C20_QueueCommandsAreAtomic ==
    /\ \A t \in TaskId : task[t].pc # "drain_get"
    /\ \A c \in CtrlId :
          fifo[c].sound =>
              /\ NoRepeats(ctrl[c].queue)
              /\ Range(ctrl[c].queue) \cap fifo[c].went = {}
              /\ Range(ctrl[c].queue) \cup fifo[c].went = fifo[c].came

\* A remove, move or clear has acted on a queue that play has put two tracks
\* in, while another command is in flight, and has left a track in the queue.
C20_Witness ==
    \E c \in CtrlId :
        /\ fifo[c].sound
        /\ ~fifo[c].ok
        /\ Cardinality(fifo[c].came) > 1
        /\ ctrl[c].queue # <<>>
        /\ \E t \in TaskId : task[t].pc # "idle"

\* C21: the volume of every controller is an integer from 0 to 200; it is 50
\* while no volume command has been invoked, and 50 in the controller that a
\* volume command's get_controller constructs; the command stores the volume
\* asked for when that is from 0 to 200, 0 for a lower one and 200 for a
\* higher one, and leaves the player with the volume it stored.
C21_VolumeStaysInRange ==
    /\ \A c \in CtrlId : ctrl[c].volume \in 0..200
    /\ lastOp = NoOp => \A c \in CtrlId : ctrl[c].volume = 50
    /\ lastOp.cmd = "volume" =>
          /\ lastOp.dst = 1 => lastOp.was.volume = 50
          /\ lastOp.now.volume = (IF lastOp.src < 0 THEN 0
                                  ELSE IF lastOp.src > 200 THEN 200 ELSE lastOp.src)
          /\ lastOp.pnow.volume = lastOp.now.volume
          /\ lastOp.now = [lastOp.was EXCEPT !.volume = lastOp.now.volume]

\* A volume below the range has been asked of a controller whose volume was
\* 200, and 0 was stored and applied to the player.
C21_Witness ==
    /\ lastOp.cmd = "volume"
    /\ lastOp.src < 0
    /\ lastOp.was.volume = 200
    /\ lastOp.now.volume = 0
    /\ lastOp.pnow.volume = 0

\* C30: queue clear leaves the queue empty and everything else of the
\* controller as it was (the current track, both loop flags, the volume, the
\* event, the loop where it waits), leaves the player as it was, the current
\* song playing, and sends no stop to the node.
C30_ClearKeepsTheSong ==
    lastOp.cmd = "queue clear" =>
        /\ lastOp.now = [lastOp.was EXCEPT !.queue = <<>>]
        /\ lastOp.pnow = lastOp.pwas
        /\ pendingEnds = 0

\* queue clear has emptied a queue of three tracks under queue loop while the
\* player plays the current track, which it still plays.
C30_Witness ==
    /\ lastOp.cmd = "queue clear"
    /\ Len(lastOp.was.queue) = 3
    /\ lastOp.was.is_queue_loop
    /\ ~lastOp.was.next
    /\ lastOp.pwas.current = lastOp.was.current_track
    /\ lastOp.pnow.current = lastOp.was.current_track
    /\ lastOp.now.queue = <<>>

\* The commands that run in one stretch on the controller.
OneStretchCommands ==
    {"queue remove", "queue move", "queue shuffle", "queue clear", "repeat",
     "queue loop", "volume"}

\* C27: the event `next` is set by the node's report of a track end or a track
\* exception, once, and by nothing else: a report of either sets it and
\* changes nothing else of the controller, a TrackStart and a command leave it
\* as it was; and every pass of the loop clears it: the loop resumed from its
\* wait leaves it clear when it is suspended next.
C27_EventSetsLoopClears ==
    /\ lastOp.cmd \in {"TrackEnd", "TrackException"} /\ lastOp.dst = 0 =>
          /\ ~lastOp.was.next
          /\ lastOp.now.next
          /\ ctrl[1].next
    /\ lastOp.cmd \in {"TrackEnd", "TrackException"} /\ lastOp.dst = 1 =>
          ~lastOp.now.next /\ ~ctrl[1].next
    /\ lastOp.cmd = "wake" => lastOp.was.next /\ ~lastOp.now.next
    /\ lastOp.cmd = "TrackStart" => lastOp.now.next = lastOp.was.next
    /\ lastOp.cmd \in OneStretchCommands => lastOp.now.next = lastOp.was.next

\* A TrackException has set the event of a controller under single loop, and
\* the loop it has resumed has cleared the event and plays the track again.
C27_Witness ==
    /\ lastOp.cmd = "TrackException"
    /\ lastOp.dst = 1
    /\ lastOp.was.is_single_loop
    /\ ~lastOp.was.next
    /\ ~lastOp.now.next
    /\ lastOp.now.pc = "play"

\* The step is a stretch of controller c's loop that ends in the play of line
\* 54: the loop was elsewhere, or was there and has begun a new pass.
HandsOver(c) ==
    /\ ctrl'[c].pc = "play"
    /\ ctrl[c].pc # "play" \/ (ctrl[c].next /\ ~ctrl'[c].next)

\* C28: a controller whose loop has handed a track to the player (it awaits
\* the play of line 54 or the event of line 60) has a current track; a
\* controller without one has handed none (its loop has not started, waits in
\* its first get, or is over); the stretch that hands a track to the player
\* leaves that track as the current track; and the current track changes in
\* such a stretch only, and never back to None.
C28_CurrentTrackIsTheTrackHanded ==
    /\ [](\A c \in CtrlId :
            /\ ctrl[c].pc \in {"play", "wait"} => ctrl[c].current_track # None
            /\ ctrl[c].current_track = None =>
                   ctrl[c].pc \in {"absent", "init", "get", "crashed"})
    /\ [][\A c \in CtrlId :
            /\ HandsOver(c) =>
                   /\ ctrl'[c].current_track # None
                   /\ player'.current = ctrl'[c].current_track
            /\ ctrl'[c].current_track # ctrl[c].current_track =>
                   HandsOver(c) /\ ctrl'[c].current_track # None]_vars

\* The second track handed to the player has ended: the player has dropped
\* it, the loop has not run yet, and it is still the current track.
C28_Witness ==
    \E c \in CtrlId :
        /\ ctrl[c].pc = "wait"
        /\ ctrl[c].next
        /\ ctrl[c].current_track = 2
        /\ player.current = None
        /\ ctrl[c].queue = <<>>

\* C25: get_controller returns the controller registered for the guild when
\* there is one and constructs none then; with none registered it constructs
\* exactly one, whose loop task it creates, and registers it; the controllers
\* constructed are the ones counted; and the controller registered changes
\* only by being removed, by the end of a disconnect or by cog_unload: two
\* resolutions with no removal between them yield the same controller.
C25_GetControllerGetsOrCreates ==
    /\ [](\A c \in CtrlId : (ctrl[c].pc # "absent") = (c <= nctrl))
    /\ [][IF registry # None
           THEN /\ registry' \in {registry, None}
                /\ nctrl' = nctrl
                /\ \/ registry' = registry
                   \/ task' = task
                   \/ \E t \in TaskId : /\ task[t].pc = "disconnect_sent"
                                         /\ task'[t].pc = "idle"
           ELSE IF registry' = None
                THEN nctrl' = nctrl
                ELSE /\ nctrl' = nctrl + 1
                     /\ registry' = nctrl'
                     /\ ctrl'[registry'].pc = "init"]_vars

\* A second controller has been constructed and registered and has been
\* resolved again since: its loop has started, and a command that resolved it
\* is in flight.
C25_Witness ==
    /\ registry = 2
    /\ nctrl = 2
    /\ ctrl[2].pc \notin {"absent", "init"}
    /\ \E t \in TaskId : task[t].pc # "idle" /\ task[t].c = 2

\* C26: cog_unload leaves the guild without a registered controller and
\* leaves the controller it drops as it was, its queue undrained, and the
\* player as it was; no stop is sent; and the controller registered at any
\* time afterwards is not the one dropped: it is constructed anew, with the
\* default volume, an empty queue, both loop flags off and no current track
\* (nothing here sets the volume or the flags or puts a track).
C26_UnloadDropsWithoutDraining ==
    lastOp.cmd = "cog_unload" =>
        /\ lastOp.now = lastOp.was
        /\ lastOp.pnow = lastOp.pwas
        /\ registry # lastOp.src
        /\ registry # None =>
               /\ registry > lastOp.src
               /\ registry = nctrl
               /\ Fresh(ctrl[registry])

\* The cog was unloaded while the controller had a track queued and the
\* player played; a second controller is registered, and the first one's
\* queue still holds the track.
C26_Witness ==
    /\ lastOp.cmd = "cog_unload"
    /\ lastOp.src = 1
    /\ lastOp.was.queue = <<2>>
    /\ lastOp.pwas.current = 1
    /\ registry = 2
    /\ ctrl[1].queue = <<2>>

\* ------------------------------------------------------------------- C29
\* The player played nothing when the recorded command found it.
FoundNothingPlaying == ~(lastOp.pwas.connected /\ lastOp.pwas.current # None)

\* C29: a skip, pause, resume, seek or stop that finds the player playing
\* nothing answers with an error and is over at once: the controller (its
\* flags, its queue, its current track, its volume) and the player are as
\* the command found them, no stop is on its way to the node, and no
\* invocation is left awaiting anything.
C29_NothingPlayingChangesNothing ==
    lastOp.cmd \in {"skip", "pause", "resume", "seek", "stop"}
    /\ lastOp.reply # OnCooldownError
    /\ FoundNothingPlaying
    => /\ lastOp.reply \in {"There are no songs to skip.",
                             "There's nothing to pause you dummy.",
                             "There's nothing to resume from.",
                             "There's no song to seek.",
                             "There's nothing to stop."}
       /\ lastOp.now = lastOp.was
       /\ lastOp.pnow = lastOp.pwas
       /\ pendingEnds = 0
       /\ \A t \in TaskId : task[t].pc = "idle"

\* A stop has found a controller whose track has ended and whose queue holds
\* a track, and has left the track queued and the repeat flag set.
C29_Witness ==
    /\ lastOp.cmd = "stop"
    /\ lastOp.reply = "There's nothing to stop."
    /\ lastOp.was.queue # <<>>
    /\ lastOp.was.is_single_loop
    /\ lastOp.now.queue = lastOp.was.queue
    /\ lastOp.pwas.connected
    /\ lastOp.pwas.current = None

\* ------------------------------------------------------------------- C22
\* The handler of a stop or a disconnect button is over in this step.
ButtonOver(t) ==
    /\ press[t].button \in {"stop", "disconnect"}
    /\ press[t].pc # "none"
    /\ press'[t].pc = "none"

\* The stop command that a message has invoked is over in this step.
StopCommandOver(t) ==
    /\ press[t].pc = "none"
    /\ task[t].cmd = "stop"
    /\ task[t].pc = "stop_sent"
    /\ task'[t].pc = "idle"

\* C22: when the handler of the stop button or of the disconnect button is
\* over, and when a stop command invoked by a message is over, the menu of
\* the controller has no message any more.
C22_StopTearsTheMenuDown ==
    [][\A t \in TaskId :
          /\ ButtonOver(t) => ~ctrl'[press[t].menu].menu_message
          /\ StopCommandOver(t) => ~ctrl'[task[t].c].menu_message]_vars

\* ------------------------------------------------------------------- C23
\* The text command of each of the seven buttons.
CommandOfButton ==
    [b \in Buttons |->
        IF b = "shuffle" THEN "queue shuffle"
        ELSE IF b = "qloop" THEN "queue loop"
        ELSE IF b = "loop" THEN "repeat"
        ELSE b]

\* What the first stretch of each of the seven commands makes of the
\* controller `was` and the player `pwas` it finds, whoever invokes it and
\* however: repeat and queue loop set the flags, queue shuffle reorders the
\* queue, and pause, skip, stop and disconnect have only sent their request
\* to the player.
SameChange(op) ==
    /\ op.pnow = op.pwas
    /\ CASE op.cmd = "repeat" ->
              op.now = [op.was EXCEPT !.is_single_loop = ~@]
         [] op.cmd = "queue loop" ->
              op.now = IF ~op.was.is_queue_loop /\ op.was.is_single_loop
                       THEN [op.was EXCEPT !.is_queue_loop = TRUE,
                                           !.is_single_loop = FALSE]
                       ELSE [op.was EXCEPT !.is_queue_loop = ~@]
         [] op.cmd = "queue shuffle" ->
              /\ SameTracks(op.now.queue, op.was.queue)
              /\ op.now = [op.was EXCEPT !.queue = op.now.queue]
         [] OTHER -> op.now = op.was

\* The stretch the invocation is left in by a command that has found the
\* player playing or not.
LeftAt(op) ==
    LET playing == op.pwas.connected /\ op.pwas.current # None IN
    CASE op.cmd = "pause" ->
           IF ~playing THEN {"idle"}
           ELSE IF op.pwas.paused THEN {"resume_sent"} ELSE {"pause_sent"}
      [] op.cmd \in {"skip", "stop"} -> IF playing THEN {"stop_sent"} ELSE {"idle"}
      [] op.cmd = "disconnect" -> {"stop_sent"}
      [] OTHER -> {"idle", "reply"}

\* A step of a button handler after the command it has invoked.
HandlerStep(t) == press[t].pc \in {"returned", "delete"} /\ press'[t] # press[t]

\* C23: a press on a button invokes the text command of that button with the
\* member who pressed as the author, whoever has started the menu; the first
\* stretch of the command changes the controller, the queue and the player
\* as it does when that member invokes it by a message, and leaves the
\* invocation at the same await; what the handler does after the command
\* changes neither the registry, nor the player, nor anything of a
\* controller but the menu's message.
C23_ButtonIsTheCommand ==
    /\ [](\A t \in TaskId : press[t].pc # "none" =>
              /\ press[t].author = press[t].member
              /\ lastOp.dst = 1
              /\ lastOp.src = press[t].member
              /\ lastOp.cmd = CommandOfButton[press[t].button])
    /\ [](lastOp.cmd \in ButtonCommands /\ lastOp.reply # OnCooldownError =>
              SameChange(lastOp))
    /\ [][\A t \in TaskId :
             /\ Starts(t) /\ Unapplied /\ ~Unapplied'
                /\ lastOp'.cmd \in ButtonCommands
                /\ lastOp'.reply # OnCooldownError
                => task'[t].pc \in LeftAt(lastOp')
             /\ HandlerStep(t) =>
                  /\ UNCHANGED <<registry, nctrl, player, pendingEnds, task>>
                  /\ \A c \in CtrlId :
                        ctrl[c] = [ctrl'[c] EXCEPT !.menu_message = ctrl[c].menu_message]]_vars

\* Member 2 has pressed the queue-loop button of the menu that member 1 has
\* started, on a controller that repeats its track: the queue loop is on, the
\* repeat is off, and the handler is about to reset the cooldown.
C23_Witness ==
    \E t \in TaskId :
        /\ press[t].pc = "returned"
        /\ press[t].button = "qloop"
        /\ press[t].member = 2
        /\ press[t].member # MenuContext.author
        /\ lastOp.cmd = "queue loop"
        /\ lastOp.src = 2
        /\ lastOp.was.is_single_loop
        /\ lastOp.now.is_queue_loop
        /\ ~lastOp.now.is_single_loop

\* ------------------------------------------------------------------- C24
\* A member presses a button in this step, and the handler resets the
\* cooldown in this step.
PressStep(t) == press[t].pc = "none" /\ press'[t].pc # "none"
ResetStep(t) == press[t].pc = "returned" /\ press'[t].pc # "returned"

\* C24 as stated: a press is refused only for a use of the command by the
\* member who presses, and the reset after a press frees no limit that
\* another member has exhausted.
C24_ResetIsPerIdentity ==
    [][\A t \in TaskId :
          /\ PressStep(t) /\ lastOp'.reply = OnCooldownError
             => buckets[lastOp'.cmd] = press'[t].member
          /\ ResetStep(t)
             => \A cmd \in Limited :
                   buckets[cmd] # press[t].member => buckets'[cmd] = buckets[cmd]]_vars

\* C24, amended: the limit of a command is one for the guild.  An invocation
\* is refused exactly when the command's limit is exhausted, by whomever, and
\* then changes nothing; an invocation that runs exhausts the limit; the
\* reset after a press frees the limit of the button's command, whoever has
\* exhausted it, and no other limit.
C24_ResetIsPerGuild ==
    [][/\ Unapplied /\ ~Unapplied' =>
            IF lastOp'.cmd \in Limited /\ buckets[lastOp'.cmd] # None
            THEN /\ lastOp'.reply = OnCooldownError
                 /\ UNCHANGED <<registry, nctrl, ctrl, player, pendingEnds, task,
                                buckets>>
            ELSE /\ lastOp'.reply # OnCooldownError
                 /\ lastOp'.cmd \in Limited =>
                       buckets' = [buckets EXCEPT ![lastOp'.cmd] = lastOp'.src]
       /\ \A t \in TaskId :
            ResetStep(t) =>
               buckets' = [buckets EXCEPT ![CommandOfButton[press[t].button]] = None]]_vars

\* Member 1 has used every command; member 2 has pressed a button, has been
\* refused, and the handler is over: the command is free again for both,
\* the other commands are not.
C24_Witness ==
    /\ lastOp.dst = 1
    /\ lastOp.src = 2
    /\ lastOp.reply = OnCooldownError
    /\ buckets[lastOp.cmd] = None
    /\ \A cmd \in Limited \ {lastOp.cmd} : buckets[cmd] = 1
    /\ \A t \in TaskId : press[t].pc = "none"

\* ------------------------------------------------------------------- C31
\* C31: no command is ever suspended in a get of the queue: every get of
\* queue remove, queue move, queue clear, stop and disconnect finds a track;
\* only a loop suspended at line 52 is ever a waiting getter of its queue,
\* and it waits on an empty queue; and every command that has begun comes
\* to its end, whatever the loop and the other commands do meanwhile.
C31_CommandsNeverWaitInGet ==
    /\ [](\A t \in TaskId : task[t].pc # "drain_get")
    /\ [](\A c \in CtrlId :
             /\ ctrl[c].getter # "none" => ctrl[c].pc = "get"
             /\ ctrl[c].getter = "waiting" => ctrl[c].queue = <<>>)
    /\ \A t \in TaskId : (task[t].pc # "idle") ~> (task[t].pc = "idle")

\* A play had woken the loop suspended in queue.get(), and a command has
\* taken every track out of the queue before the loop was resumed, while
\* another command awaits the player.
C31_Witness ==
    /\ ctrl[1].pc = "get"
    /\ ctrl[1].getter = "woken"
    /\ ctrl[1].queue = <<>>
    /\ \E t \in TaskId : task[t].pc = "stop_sent"

\* ------------------------------------------------------------------- C32
\* C32: the track of every `self.player.play(self.current_track)` of a loop
\* (line 54) is a track: a loop that awaits its play, or that the play has
\* ended, has a current track.
C32_PlayGetsATrack ==
    \A c \in CtrlId :
        ctrl[c].pc \in {"play", "crashed"} => ctrl[c].current_track # None

\* ------------------------------------------------------------------- C33
\* The loop of controller c leaves queue.get() with a track and hands it to
\* the player in this step.
LeavesGet(c) == ctrl[c].pc = "get" /\ ctrl'[c].pc = "play"

\* C33: a track is handed to the player with the event clear: an event set
\* while the loop was suspended in queue.get() is not left set for the
\* `await self.next.wait()` of the track the loop gets next.
C33_NoStaleSignalAtHandOver ==
    [][\A c \in CtrlId : LeavesGet(c) => ~ctrl'[c].next]_vars

\* ------------------------------------------------------------------- C34
\* C34: an event set after the loop has called play and before it reaches
\* `await self.next.wait()` is not lost: the event stays set until the loop
\* itself goes on, the loop that finds it set does not go to wait, and, the
\* event loop being fair, it goes on to its next pass and clears the event
\* there (or ends, when the notification of line 55 raises).
C34_NoLostWakeup ==
    /\ [][\A c \in CtrlId :
             ctrl[c].pc = "play" /\ ctrl[c].next =>
                 /\ ctrl'[c].pc \in {"play", "get", "crashed"}
                 /\ ctrl'[c].pc = "crashed" => ctrl'[c].next]_vars
    /\ \A c \in CtrlId :
          (ctrl[c].pc = "play" /\ ctrl[c].next)
              ~> (~ctrl[c].next \/ ctrl[c].pc = "crashed")

\* The end of the track has been delivered while the loop awaits the play of
\* that track, with another track behind it in the queue.
C34_Witness ==
    \E c \in CtrlId :
        /\ ctrl[c].pc = "play"
        /\ ctrl[c].next
        /\ ctrl[c].channel
        /\ ctrl[c].queue # <<>>
        /\ player.current = None

\* ------------------------------------------------------------------- C35
\* The number of times track x occurs in the controller: as its current
\* track and in its queue.
Occurrences(cr, x) == Count(cr.queue, x) + (IF cr.current_track = x THEN 1 ELSE 0)

\* C35: every track is built and put once by play (lines 371-377), and no
\* controller ever holds it more than once, as its current track and in its
\* queue together, whatever the loop flags are.
C35_LoopingNeverMultiplies ==
    \A c \in CtrlId : \A x \in Tracks : Occurrences(ctrl[c], x) <= 1

\* ------------------------------------------------------------------- C36
\* The invocations that are inside `await controller.menu.start(ctx)` for
\* controller c: each sends an initial message of the menu.
Starting(c) == {t \in TaskId : task[t].pc = "menu_start" /\ task[t].c = c}

\* C36: the menu of a controller is started by one invocation at a time,
\* and by none once it has its message: no second status message is sent.
C36_MenuStartsOnce ==
    \A c \in CtrlId :
        /\ Cardinality(Starting(c)) <= 1
        /\ ctrl[c].menu_message => Starting(c) = {}

\* ------------------------------------------------------------------- C37
\* A MusicController is constructed for id c in this step.
Constructed(c) == ctrl[c].pc = "absent" /\ ctrl'[c].pc # "absent"

\* C37: once a disconnect has popped the guild's registry entry, a
\* controller is constructed (and registered, and its loop task created) by
\* commands only, never by the event hook: none is constructed by the step
\* that sets its event, the delivery of a track's end.
C37_OnlyCommandsConstruct ==
    [][\A c \in CtrlId :
          lastOp.cmd = "disconnect" /\ registry = None /\ Constructed(c)
             => ~ctrl'[c].next]_vars

\* ------------------------------------------------------------------- C38
\* The play of controller c's loop has returned and the loop goes on to
\* `await self.channel.send(...)` (line 55) in this step.
Notifies(c) == ctrl[c].pc = "play" /\ ctrl'[c].pc # "play"

\* C38: when a loop sends its now-playing notification, the channel of its
\* controller has been set by connect (line 254).
C38_NotifiesOnAChannel ==
    [][\A c \in CtrlId : Notifies(c) => ctrl[c].channel]_vars
====
